---- MODULE Spec2Model ----
(***************************************************************************)
(* Model of the coin-flip compressibility scripts of                       *)
(* stats-study-guide/scripts:                                              *)
(*   advanced_compression.py  (analyze_sequence, build_huffman_codes)      *)
(*   runlength_huffman.py     (analyze_compression, build_huffman_codes)   *)
(*   huffman_compression.py   (build_huffman_tree, get_huffman_codes,      *)
(*                             huffman_encode)                             *)
(*   compression_analysis.py  (get_transitions, run_length_encode)         *)
(*                                                                         *)
(* Conventions.  A Python str of '0'/'1' (or 'H'/'T') characters is a      *)
(* sequence of one-character strings.  A dict is kept in insertion order   *)
(* as a sequence of [sym, freq] records when its order is observable (the  *)
(* frequency tables fed to the heap) and as a function when only lookups   *)
(* are made (the code tables).  A Python tuple (val, length) is the pair   *)
(* <<val, length>>.  A float quotient a / b of two ints is the exact       *)
(* rational [num |-> a, den |-> b], whose nearest double it is; every      *)
(* float computed from floats is an exact IEEE-754 binary64 value.  Python *)
(* positions are 0-based: position p of a list is element p + 1 of the     *)
(* sequence.                                                               *)
(***************************************************************************)
EXTENDS Integers, Sequences, FiniteSets, TLC

VARIABLES
  script,      \* which entry point this run executes
  pc,          \* position inside the entry point
  error,       \* "none", or the name of the exception that ended the run
  freq_dict,   \* build harness: the frequency table handed to the build
  heap,        \* build_huffman_tree: the heap list
  merges,      \* build_huffman_tree: iterations of the merge loop so far
  tree,        \* build_huffman_tree: the returned root
  codes,       \* the code table returned by the build
  symbols,     \* huffman_encode: the symbol list to encode
  encoded,     \* huffman_encode: the returned bit string
  flips,       \* the analysed flip string
  transitions, \* to_transitions(flips)
  runs,        \* get_runs(transitions)
  loc,         \* locals of the running analysis function
  results      \* the results dict built by the analysis function

vars == <<script, pc, error, freq_dict, heap, merges, tree, codes, symbols,
          encoded, flips, transitions, runs, loc, results>>

(***************************************************************************)
(* Bounds of the explored inputs.                                          *)
(***************************************************************************)
MaxSyms == 4
MaxCount == 3
MaxMsg == 2
MaxFlips == 10
MaxCodeLen == 3
MaxGolombM == 3
MaxRandomFlips == 4
MaxUserFlips == 6

\* the longest candidate flip string of the runs of main with a fixed reference
MaxTargetFlips == 10

\* the most flips after the opening streak in the runs of the scripts that
\* compute an entropy
MaxEntropyTail == 10

(***************************************************************************)
(* Generic list helpers.                                                   *)
(***************************************************************************)
RECURSIVE SumSeq(_)
SumSeq(s) == IF s = <<>> THEN 0 ELSE Head(s) + SumSeq(Tail(s))

RECURSIVE Concat(_)
Concat(ss) == IF ss = <<>> THEN <<>> ELSE Head(ss) \o Concat(Tail(ss))

RECURSIVE Repeat(_, _)
Repeat(x, k) == IF k = 0 THEN <<>> ELSE <<x>> \o Repeat(x, k - 1)

SeqsUpTo(S, k) == UNION {[1..m -> S] : m \in 0..k}

IsPrefix(a, b) == Len(a) <= Len(b) /\ SubSeq(b, 1, Len(a)) = a

\* collections.Counter(xs) as the ordered item list: first occurrence order
RECURSIVE CounterAcc(_, _)
CounterAcc(xs, acc) ==
  IF xs = <<>> THEN acc
  ELSE LET x == Head(xs)
           hit == {i \in 1..Len(acc) : acc[i].sym = x}
       IN IF hit = {}
          THEN CounterAcc(Tail(xs), Append(acc, [sym |-> x, freq |-> 1]))
          ELSE LET i == CHOOSE j \in hit : TRUE
               IN CounterAcc(Tail(xs),
                             [acc EXCEPT ![i].freq = acc[i].freq + 1])

Counter(xs) == CounterAcc(xs, <<>>)

(***************************************************************************)
(* Tree nodes.  Node(sym, freq) / HuffmanNode(symbol, freq) objects: a     *)
(* node whose symbol is not None is a "leaf" record, a node built with     *)
(* symbol None and then given left and right is an "internal" record.      *)
(* NoneNode is the None that build_huffman_tree returns for an empty heap. *)
(***************************************************************************)
HuffmanNode(symbol, freq) == [kind |-> "leaf", sym |-> symbol, freq |-> freq]

Merged(left, right) ==
  [kind |-> "internal", freq |-> left.freq + right.freq,
   left |-> left, right |-> right]

NoneNode == [kind |-> "None"]

\* mutation: the comparison reversed (a max-heap)
NodeLt_reversed(a, b) == a.freq > b.freq

\* HuffmanNode.__lt__ / Node.__lt__ : the frequencies only
NodeLt(a, b) == a.freq < b.freq

(***************************************************************************)
(* heapq (CPython), on a list of nodes ordered by NodeLt.                  *)
(***************************************************************************)
RECURSIVE SiftdownLoop(_, _, _, _)
SiftdownLoop(h, startpos, pos, newitem) ==
  IF pos > startpos
  THEN LET parentpos == (pos - 1) \div 2
           parent == h[parentpos + 1]
       IN IF NodeLt(newitem, parent)
          THEN SiftdownLoop([h EXCEPT ![pos + 1] = parent],
                            startpos, parentpos, newitem)
          ELSE [h EXCEPT ![pos + 1] = newitem]
  ELSE [h EXCEPT ![pos + 1] = newitem]

Siftdown(h, startpos, pos) == SiftdownLoop(h, startpos, pos, h[pos + 1])

RECURSIVE SiftupLoop(_, _)
SiftupLoop(h, pos) ==
  LET endpos == Len(h)
      childpos == 2 * pos + 1
      rightpos == childpos + 1
  IN IF childpos < endpos
     THEN LET c == IF rightpos < endpos
                      /\ ~NodeLt(h[childpos + 1], h[rightpos + 1])
                   THEN rightpos ELSE childpos
          IN SiftupLoop([h EXCEPT ![pos + 1] = h[c + 1]], c)
     ELSE [heap |-> h, pos |-> pos]

Siftup(h, pos) ==
  LET newitem == h[pos + 1]
      r == SiftupLoop(h, pos)
  IN Siftdown([r.heap EXCEPT ![r.pos + 1] = newitem], pos, r.pos)

\* for i in reversed(range(n//2)): _siftup(x, i)
RECURSIVE HeapifyFrom(_, _)
HeapifyFrom(h, i) == IF i < 0 THEN h ELSE HeapifyFrom(Siftup(h, i), i - 1)

\* mutation: the list left in insertion order
heapify_none(h) == h

heapify(h) == HeapifyFrom(h, (Len(h) \div 2) - 1)

\* heappop on a non-empty heap: the returned item and the heap left behind
heappop(h) ==
  LET lastelt == h[Len(h)]
      rest == SubSeq(h, 1, Len(h) - 1)
  IN IF rest # <<>>
     THEN [item |-> rest[1], heap |-> Siftup([rest EXCEPT ![1] = lastelt], 0)]
     ELSE [item |-> lastelt, heap |-> rest]

heappush(h, item) == Siftdown(Append(h, item), 0, Len(h))

(***************************************************************************)
(* The Huffman build.                                                      *)
(***************************************************************************)
\* heap = [HuffmanNode(sym, freq) for sym, freq in freq_dict.items()]
RECURSIVE NodeList(_)
NodeList(fd) ==
  IF fd = <<>> THEN <<>>
  ELSE <<HuffmanNode(Head(fd).sym, Head(fd).freq)>> \o NodeList(Tail(fd))

\* mutation: the second node taken from the end of the heap list instead of
\* popped as the lowest
MergeStep_last(h) ==
  LET p1 == heappop(h)
  IN heappush(SubSeq(p1.heap, 1, Len(p1.heap) - 1),
              Merged(p1.item, p1.heap[Len(p1.heap)]))

\* one iteration of: while len(heap) > 1
MergeStep(h) ==
  LET p1 == heappop(h)
      p2 == heappop(p1.heap)
  IN heappush(p2.heap, Merged(p1.item, p2.item))

RECURSIVE MergeLoop(_)
MergeLoop(h) == IF Len(h) > 1 THEN MergeLoop(MergeStep(h)) ELSE h

build_huffman_tree(fd) ==
  LET h == MergeLoop(heapify(NodeList(fd)))
  IN IF h # <<>> THEN h[1] ELSE NoneNode

\* codes[sym] = code on a dict held as a function
DictSet(d, k, v) == (k :> v) @@ d

EmptyDict == <<>>

\* mutation: the fallback '"0" if the prefix is empty' forgotten
RECURSIVE get_huffman_codes_nofallback(_, _, _)
get_huffman_codes_nofallback(node, prefix, cs) ==
  IF node.kind = "leaf"
  THEN DictSet(cs, node.sym, prefix)
  ELSE get_huffman_codes_nofallback(node.right, prefix \o <<"1">>,
         get_huffman_codes_nofallback(node.left, prefix \o <<"0">>, cs))

\* get_huffman_codes(node, prefix, codes) on a node that is not None
RECURSIVE get_huffman_codes(_, _, _)
get_huffman_codes(node, prefix, cs) ==
  IF node.kind = "leaf"
  THEN DictSet(cs, node.sym, IF prefix # <<>> THEN prefix ELSE <<"0">>)
  ELSE get_huffman_codes(node.right, prefix \o <<"1">>,
         get_huffman_codes(node.left, prefix \o <<"0">>, cs))

\* mutation: both children extend the prefix with "0"
RECURSIVE extract_samebit(_, _, _)
extract_samebit(node, prefix, cs) ==
  IF node.kind = "leaf"
  THEN DictSet(cs, node.sym, IF prefix # <<>> THEN prefix ELSE <<"0">>)
  ELSE extract_samebit(node.right, prefix \o <<"0">>,
         extract_samebit(node.left, prefix \o <<"0">>, cs))

\* mutation: the right subtree is not visited
RECURSIVE extract_leftonly(_, _, _)
extract_leftonly(node, prefix, cs) ==
  IF node.kind = "leaf"
  THEN DictSet(cs, node.sym, IF prefix # <<>> THEN prefix ELSE <<"0">>)
  ELSE extract_leftonly(node.left, prefix \o <<"0">>, cs)

\* advanced_compression.build_huffman_codes and its inner extract
RECURSIVE extract(_, _, _)
extract(node, prefix, cs) ==
  IF node.kind = "leaf"
  THEN DictSet(cs, node.sym, IF prefix # <<>> THEN prefix ELSE <<"0">>)
  ELSE extract(node.right, prefix \o <<"1">>,
         extract(node.left, prefix \o <<"0">>, cs))

build_huffman_codes(fd) ==
  IF Len(fd) = 0 THEN EmptyDict
  ELSE IF Len(fd) = 1 THEN DictSet(EmptyDict, fd[1].sym, <<"0">>)
  ELSE extract(MergeLoop(heapify(NodeList(fd)))[1], <<>>, EmptyDict)

\* runlength_huffman.build_huffman_codes and its inner extract_codes
RECURSIVE extract_codes(_, _, _)
extract_codes(node, prefix, cs) ==
  IF node.kind = "leaf"
  THEN DictSet(cs, node.sym, IF prefix # <<>> THEN prefix ELSE <<"0">>)
  ELSE extract_codes(node.right, prefix \o <<"1">>,
         extract_codes(node.left, prefix \o <<"0">>, cs))

\* mutation: the one-symbol table gets the empty code
rl_build_huffman_codes_emptycode(fd) ==
  IF Len(fd) = 0 THEN EmptyDict
  ELSE IF Len(fd) = 1 THEN DictSet(EmptyDict, fd[1].sym, <<>>)
  ELSE extract_codes(MergeLoop(heapify(NodeList(fd)))[1], <<>>, EmptyDict)

rl_build_huffman_codes(fd) ==
  IF Len(fd) = 0 THEN EmptyDict
  ELSE IF Len(fd) = 1 THEN DictSet(EmptyDict, fd[1].sym, <<"0">>)
  ELSE extract_codes(MergeLoop(heapify(NodeList(fd)))[1], <<>>, EmptyDict)

\* ''.join(codes[s] for s in symbols)
RECURSIVE EncodeFrom(_, _)
EncodeFrom(syms, cs) ==
  IF syms = <<>> THEN <<>> ELSE cs[Head(syms)] \o EncodeFrom(Tail(syms), cs)

\* mutation: the first symbol is skipped
huffman_encode_skipfirst(syms, cs) ==
  IF syms = <<>> THEN <<>> ELSE EncodeFrom(Tail(syms), cs)

\* huffman_encode(symbols, codes), every symbol a key of codes
huffman_encode(syms, cs) == EncodeFrom(syms, cs)

\* HuffmanCodec.decode of the specification: walk the tree bit by bit, emit a
\* symbol and reset to the root at each leaf; a one-leaf tree (code "0")
\* emits its symbol for every "0" bit.
RECURSIVE DecodeWalk(_, _, _, _)
DecodeWalk(root, node, bits, out) ==
  IF bits = <<>>
  THEN [error |-> IF node = root THEN "none" ELSE "MalformedStreamError",
        symbols |-> out]
  ELSE IF root.kind = "leaf"
  THEN IF Head(bits) = "0"
       THEN DecodeWalk(root, root, Tail(bits), Append(out, root.sym))
       ELSE [error |-> "MalformedStreamError", symbols |-> out]
  ELSE LET nxt == IF Head(bits) = "0" THEN node.left ELSE node.right
       IN IF nxt.kind = "leaf"
          THEN DecodeWalk(root, root, Tail(bits), Append(out, nxt.sym))
          ELSE DecodeWalk(root, nxt, Tail(bits), out)

huffman_decode(root, bits) == DecodeWalk(root, root, bits, <<>>)

(***************************************************************************)
(* Transition streams and runs.                                            *)
(***************************************************************************)
\* mutation: the polarity inverted (1 = same as previous)
RECURSIVE TransitionsFrom_inverted(_, _)
TransitionsFrom_inverted(x, i) ==
  IF i < Len(x)
  THEN <<IF x[i + 1] = x[i] THEN 1 ELSE 0>>
       \o TransitionsFrom_inverted(x, i + 1)
  ELSE <<>>

\* [1 if x[i] != x[i-1] else 0 for i in range(1, len(x))], from position i
RECURSIVE TransitionsFrom(_, _)
TransitionsFrom(x, i) ==
  IF i < Len(x)
  THEN <<IF x[i + 1] # x[i] THEN 1 ELSE 0>> \o TransitionsFrom(x, i + 1)
  ELSE <<>>

\* advanced_compression.to_transitions (runlength_huffman's and
\* huffman_compression's are the same line)
to_transitions(fl) == TransitionsFrom(fl, 1)

\* compression_analysis.to_bits: H=1, T=0
RECURSIVE to_bits(_)
to_bits(fl) ==
  IF fl = <<>> THEN <<>>
  ELSE <<IF Head(fl) = "H" THEN 1 ELSE 0>> \o to_bits(Tail(fl))

\* compression_analysis.get_transitions
get_transitions(bits) == TransitionsFrom(bits, 1)

\* mutation: the append of the last run after the loop forgotten
RECURSIVE RunsLoop_nolast(_, _, _, _)
RunsLoop_nolast(rest, current_val, current_len, rs) ==
  IF rest = <<>> THEN rs
  ELSE IF Head(rest) = current_val
  THEN RunsLoop_nolast(Tail(rest), current_val, current_len + 1, rs)
  ELSE RunsLoop_nolast(Tail(rest), Head(rest), 1,
                       Append(rs, <<current_val, current_len>>))

\* mutation: every bit closes the current run (the comparison never true)
RECURSIVE RunsLoop_nomerge(_, _, _, _)
RunsLoop_nomerge(rest, current_val, current_len, rs) ==
  IF rest = <<>> THEN Append(rs, <<current_val, current_len>>)
  ELSE RunsLoop_nomerge(Tail(rest), Head(rest), 1,
                        Append(rs, <<current_val, current_len>>))

\* the scan loop shared by get_runs and run_length_encode:
\* for bit in stream[1:] ... ; runs.append((current_val, current_len))
RECURSIVE RunsLoop(_, _, _, _)
RunsLoop(rest, current_val, current_len, rs) ==
  IF rest = <<>> THEN Append(rs, <<current_val, current_len>>)
  ELSE IF Head(rest) = current_val
  THEN RunsLoop(Tail(rest), current_val, current_len + 1, rs)
  ELSE RunsLoop(Tail(rest), Head(rest), 1,
                Append(rs, <<current_val, current_len>>))

\* advanced_compression.get_runs
get_runs(stream) ==
  IF stream = <<>> THEN <<>>
  ELSE RunsLoop(Tail(stream), Head(stream), 1, <<>>)

\* runlength_huffman.get_runs
rl_get_runs(stream) ==
  IF stream = <<>> THEN <<>>
  ELSE RunsLoop(Tail(stream), Head(stream), 1, <<>>)

\* compression_analysis.run_length_encode
run_length_encode(bits) ==
  IF bits = <<>> THEN <<>>
  ELSE RunsLoop(Tail(bits), Head(bits), 1, <<>>)

\* mutation: the filter written val >= v, so the 0-table takes every run
RECURSIVE LengthsOf_ge(_, _)
LengthsOf_ge(rs, v) ==
  IF rs = <<>> THEN <<>>
  ELSE (IF Head(rs)[1] >= v THEN <<Head(rs)[2]>> ELSE <<>>)
       \o LengthsOf_ge(Tail(rs), v)

\* [length for val, length in runs if val == v]
RECURSIVE LengthsOf(_, _)
LengthsOf(rs, v) ==
  IF rs = <<>> THEN <<>>
  ELSE (IF Head(rs)[1] = v THEN <<Head(rs)[2]>> ELSE <<>>)
       \o LengthsOf(Tail(rs), v)

\* [length for _, length in runs]
RECURSIVE AllLengths(_)
AllLengths(rs) ==
  IF rs = <<>> THEN <<>> ELSE <<Head(rs)[2]>> \o AllLengths(Tail(rs))

\* a float quotient a / b, b # 0
Ratio(a, b) == [num |-> a, den |-> b]

RatEq(x, y) == x.num * y.den = y.num * x.den

(***************************************************************************)
(* advanced_compression.analyze_sequence: grouping and bit counts.         *)
(***************************************************************************)
\* None for the local leftover of the paired method
None == <<>>

\* mutation: the loop bound off by one (i < len(runs) - k)
RECURSIVE GroupLoop_offbyone(_, _, _, _)
GroupLoop_offbyone(rs, k, i, acc) ==
  IF i < Len(rs) - k
  THEN GroupLoop_offbyone(rs, k, i + k,
                          Append(acc, AllLengths(SubSeq(rs, i + 1, i + k))))
  ELSE acc

\* i = 0; while i < len(runs) - (k-1): append the k lengths at i; i += k
RECURSIVE GroupLoop(_, _, _, _)
GroupLoop(rs, k, i, acc) ==
  IF i < Len(rs) - (k - 1)
  THEN GroupLoop(rs, k, i + k,
                 Append(acc, AllLengths(SubSeq(rs, i + 1, i + k))))
  ELSE acc

GroupTuples(rs, k) == GroupLoop(rs, k, 0, <<>>)

\* leftover = runs[-1] if len(runs) % 2 == 1 else None
leftover(rs) == IF Len(rs) % 2 = 1 THEN rs[Len(rs)] ELSE None

\* mutation: the slice taken from the front (runs[:len(runs) % k])
leftover_runs_front(rs, k) ==
  IF Len(rs) % k # 0 THEN SubSeq(rs, 1, Len(rs) % k) ELSE <<>>

\* leftover_runs = runs[-(len(runs) % k):] if len(runs) % k != 0 else []
leftover_runs(rs, k) ==
  IF Len(rs) % k # 0
  THEN SubSeq(rs, Len(rs) - (Len(rs) % k) + 1, Len(rs))
  ELSE <<>>

\* sum of len(table[x]) for x in xs
RECURSIVE TableBits(_, _)
TableBits(xs, table) ==
  IF xs = <<>> THEN 0 ELSE Len(table[Head(xs)]) + TableBits(Tail(xs), table)

\* len(codes_1[length]) if val == 1 else len(codes_0[length])
RunBits(run, codes_1, codes_0) ==
  IF run[1] = 1 THEN Len(codes_1[run[2]]) ELSE Len(codes_0[run[2]])

\* the same, summed over: for val, length in rs
RECURSIVE RunsBits(_, _, _)
RunsBits(rs, codes_1, codes_0) ==
  IF rs = <<>> THEN 0
  ELSE RunBits(Head(rs), codes_1, codes_0)
       + RunsBits(Tail(rs), codes_1, codes_0)

(***************************************************************************)
(* Python floats (IEEE-754 binary64, round to nearest even) as main uses   *)
(* them: int / int, 1 - float, float * 100, float - float, comparisons.    *)
(* A natural number that does not fit a machine word is held as its        *)
(* digits in base 2^15, least significant first, without leading zeros.    *)
(***************************************************************************)
Base == 128 * 256

RECURSIVE BigNorm(_)
BigNorm(a) ==
  IF a # <<>> /\ a[Len(a)] = 0 THEN BigNorm(SubSeq(a, 1, Len(a) - 1)) ELSE a

RECURSIVE BigFromInt(_)
BigFromInt(k) ==
  IF k = 0 THEN <<>> ELSE <<k % Base>> \o BigFromInt(k \div Base)

RECURSIVE BigAddC(_, _, _)
BigAddC(a, b, c) ==
  IF a = <<>> /\ b = <<>> THEN (IF c = 0 THEN <<>> ELSE <<c>>)
  ELSE LET x == (IF a = <<>> THEN 0 ELSE Head(a))
                + (IF b = <<>> THEN 0 ELSE Head(b)) + c
       IN <<x % Base>> \o BigAddC(IF a = <<>> THEN <<>> ELSE Tail(a),
                                  IF b = <<>> THEN <<>> ELSE Tail(b),
                                  x \div Base)

BigAdd(a, b) == BigAddC(a, b, 0)

\* a - b for a >= b
RECURSIVE BigSubB(_, _, _)
BigSubB(a, b, borrow) ==
  IF a = <<>> THEN <<>>
  ELSE LET x == Head(a) - (IF b = <<>> THEN 0 ELSE Head(b)) - borrow
       IN <<(x + Base) % Base>>
          \o BigSubB(Tail(a), IF b = <<>> THEN <<>> ELSE Tail(b),
                     IF x < 0 THEN 1 ELSE 0)

BigSub(a, b) == BigNorm(BigSubB(a, b, 0))

\* -1, 0, 1 as a < b, a = b, a > b, comparing digits i, i-1, ..., 1
RECURSIVE BigCmpFrom(_, _, _)
BigCmpFrom(a, b, i) ==
  IF i = 0 THEN 0
  ELSE IF a[i] # b[i] THEN (IF a[i] > b[i] THEN 1 ELSE -1)
  ELSE BigCmpFrom(a, b, i - 1)

BigCmp(a, b) ==
  IF Len(a) # Len(b) THEN (IF Len(a) > Len(b) THEN 1 ELSE -1)
  ELSE BigCmpFrom(a, b, Len(a))

\* a * k + c for 0 <= k <= Base
RECURSIVE BigMulSmallC(_, _, _)
BigMulSmallC(a, k, c) ==
  IF a = <<>> THEN BigFromInt(c)
  ELSE LET x == Head(a) * k + c
       IN <<x % Base>> \o BigMulSmallC(Tail(a), k, x \div Base)

BigMulSmall(a, k) == BigNorm(BigMulSmallC(a, k, 0))

\* quotient and remainder of a by 0 < d <= Base, from digit i downwards
RECURSIVE BigDivFrom(_, _, _, _, _)
BigDivFrom(a, d, i, r, q) ==
  IF i = 0 THEN [q |-> BigNorm(q), r |-> r]
  ELSE LET cur == r * Base + a[i]
       IN BigDivFrom(a, d, i - 1, cur % d, <<cur \div d>> \o q)

BigDivSmall(a, d) == BigDivFrom(a, d, Len(a), 0, <<>>)

\* a * 2^s
BigShl(a, s) ==
  IF a = <<>> THEN <<>>
  ELSE BigMulSmall(Repeat(0, s \div 15) \o a, 2 ^ (s % 15))

\* a div 2^s, and whether a nonzero bit was shifted out
BigShr(a, s) ==
  LET Digits(w, d) ==
        [q |-> IF s \div 15 >= Len(a) THEN <<>> ELSE d.q,
         sticky |-> d.r # 0 \/ \E i \in 1..w : a[i] # 0]
      Words(w) ==
        Digits(w, BigDivSmall(SubSeq(a, w + 1, Len(a)), 2 ^ (s % 15)))
  IN Words(IF s \div 15 < Len(a) THEN s \div 15 ELSE Len(a))

RECURSIVE BitLenSmall(_)
BitLenSmall(x) == IF x = 0 THEN 0 ELSE 1 + BitLenSmall(x \div 2)

BigBitLen(a) ==
  IF a = <<>> THEN 0 ELSE 15 * (Len(a) - 1) + BitLenSmall(a[Len(a)])

\* a float is sign * mag * 2^exp with mag of exactly 53 bits, or zero
FZero == [sign |-> 0, mag |-> <<>>, exp |-> 0]

\* the float nearest to sign * (mag + fraction) * 2^exp, ties to even, where
\* sticky says that the fraction, in (0, 1), is there (only with mag of more
\* than 53 bits)
Round53(sign, mag, exp, sticky) ==
  LET \* r is the rounded mag div 2^s, of 53 or 54 bits
      Pack(r, s) ==
        IF BigBitLen(r) > 53
        THEN [sign |-> sign, mag |-> BigShr(r, 1).q, exp |-> exp + s + 1]
        ELSE [sign |-> sign, mag |-> r, exp |-> exp + s]
      \* g is mag div 2^(s-1), its last bit the guard bit, and q is g div 2
      Nearest(g, q, s) ==
        Pack(IF g.q[1] % 2 = 1 /\ (sticky \/ g.sticky \/ q[1] % 2 = 1)
             THEN BigAdd(q, <<1>>) ELSE q, s)
      Shifted(g, s) == Nearest(g, BigShr(g.q, 1).q, s)
      \* L is the number of bits of mag
      Bits(L) ==
        IF L <= 53
        THEN [sign |-> sign, mag |-> BigShl(mag, 53 - L),
              exp |-> exp - (53 - L)]
        ELSE Shifted(BigShr(mag, L - 53 - 1), L - 53)
  IN IF mag = <<>> THEN FZero ELSE Bits(BigBitLen(mag))

\* float(k) for an int k
FFromInt(k) ==
  IF k = 0 THEN FZero
  ELSE IF k > 0 THEN Round53(1, BigFromInt(k), 0, FALSE)
  ELSE Round53(-1, BigFromInt(-k), 0, FALSE)

\* a / b for ints a >= 0, 0 < b <= Base: the quotient to 60 or more bits, the
\* rest of it in the sticky flag
FDiv(a, b) ==
  IF a = 0 THEN FZero
  ELSE LET d == BigDivSmall(BigShl(BigFromInt(a), 75), b)
       IN Round53(1, d.q, -75, d.r # 0)

FNeg(x) == [x EXCEPT !.sign = -x.sign]

\* x + y: the exact sum, rounded
FAdd(x, y) ==
  IF x.sign = 0 THEN y
  ELSE IF y.sign = 0 THEN x
  ELSE LET \* the result has the sign and the magnitude mag * 2^e
           Rounded(sign, mag, e) == Round53(sign, mag, e, FALSE)
           \* mx * 2^e and my * 2^e are the magnitudes of x and y; c compares
           Signed(mx, my, c, e) ==
             IF x.sign = y.sign THEN Rounded(x.sign, BigAdd(mx, my), e)
             ELSE IF c = 0 THEN FZero
             ELSE IF c > 0 THEN Rounded(x.sign, BigSub(mx, my), e)
             ELSE Rounded(y.sign, BigSub(my, mx), e)
           Aligned(mx, my, e) == Signed(mx, my, BigCmp(mx, my), e)
           Exponent(e) ==
             Aligned(BigShl(x.mag, x.exp - e), BigShl(y.mag, y.exp - e), e)
       IN Exponent(IF x.exp < y.exp THEN x.exp ELSE y.exp)

FSub(x, y) == FAdd(x, FNeg(y))

\* x * k for an int 0 < k <= Base
FMulInt(x, k) == Round53(x.sign, BigMulSmall(x.mag, k), x.exp, FALSE)

\* x > y, x >= y (a nonzero difference never rounds to zero here)
FGt(x, y) == FSub(x, y).sign = 1

FGe(x, y) == FSub(x, y).sign >= 0

\* (1 - a / b) * 100, in floats: the quotient, the difference and the
\* product each rounded
Savings(a, b) == FMulInt(FSub(FFromInt(1), FDiv(a, b)), 100)

\* a * b
RECURSIVE BigMul(_, _)
BigMul(a, b) ==
  IF a = <<>> \/ b = <<>> THEN <<>>
  ELSE BigNorm(BigAdd(BigMulSmall(b, Head(a)), <<0>> \o BigMul(Tail(a), b)))

\* x * y: the exact product, rounded
FMul(x, y) ==
  IF x.sign = 0 \/ y.sign = 0 THEN FZero
  ELSE Round53(x.sign * y.sign, BigMul(x.mag, y.mag), x.exp + y.exp, FALSE)

\* math.log2(c / total) at [total][c] for 1 <= c <= total <= 16, in binary64
\* as the C library returns it
Log2Quot ==
  <<
    << FZero >>,
    << [sign |-> -1, mag |-> <<0, 0, 0, 128>>, exp |-> -52],
       FZero >>,
    << [sign |-> -1, mag |-> <<15721, 18239, 28678, 202>>, exp |-> -52],
       [sign |-> -1, mag |-> <<31442, 3710, 24589, 149>>, exp |-> -53],
       FZero >>,
    << [sign |-> -1, mag |-> <<0, 0, 0, 128>>, exp |-> -51],
       [sign |-> -1, mag |-> <<0, 0, 0, 128>>, exp |-> -52],
       [sign |-> -1, mag |-> <<2654, 25346, 16357, 212>>, exp |-> -54],
       FZero >>,
    << [sign |-> -1, mag |-> <<9073, 4851, 19772, 148>>, exp |-> -51],
       [sign |-> -1, mag |-> <<18146, 9702, 6776, 169>>, exp |-> -52],
       [sign |-> -1, mag |-> <<4853, 15694, 21731, 188>>, exp |-> -53],
       [sign |-> -1, mag |-> <<7050, 6042, 27105, 164>>, exp |-> -54],
       FZero >>,
    << [sign |-> -1, mag |-> <<24244, 9119, 14339, 165>>, exp |-> -51],
       [sign |-> -1, mag |-> <<15721, 18239, 28678, 202>>, exp |-> -52],
       [sign |-> -1, mag |-> <<0, 0, 0, 128>>, exp |-> -52],
       [sign |-> -1, mag |-> <<31442, 3710, 24589, 149>>, exp |-> -53],
       [sign |-> -1, mag |-> <<23062, 1379, 22073, 134>>, exp |-> -54],
       FZero >>,
    << [sign |-> -1, mag |-> <<1069, 32424, 21977, 179>>, exp |-> -51],
       [sign |-> -1, mag |-> <<2138, 32080, 11187, 231>>, exp |-> -52],
       [sign |-> -1, mag |-> <<19186, 13840, 15277, 156>>, exp |-> -52],
       [sign |-> -1, mag |-> <<4276, 31392, 22375, 206>>, exp |-> -53],
       [sign |-> -1, mag |-> <<1499, 23974, 17646, 248>>, exp |-> -54],
       [sign |-> -1, mag |-> <<22413, 12420, 23915, 227>>, exp |-> -55],
       FZero >>,
    << [sign |-> -1, mag |-> <<0, 0, 0, 192>>, exp |-> -51],
       [sign |-> -1, mag |-> <<0, 0, 0, 128>>, exp |-> -51],
       [sign |-> -1, mag |-> <<17048, 14528, 4089, 181>>, exp |-> -52],
       [sign |-> -1, mag |-> <<0, 0, 0, 128>>, exp |-> -52],
       [sign |-> -1, mag |-> <<29243, 13362, 19215, 173>>, exp |-> -53],
       [sign |-> -1, mag |-> <<2654, 25346, 16357, 212>>, exp |-> -54],
       [sign |-> -1, mag |-> <<15666, 5503, 8800, 197>>, exp |-> -55],
       FZero >>,
    << [sign |-> -1, mag |-> <<15721, 18239, 28678, 202>>, exp |-> -51],
       [sign |-> -1, mag |-> <<15721, 18239, 28678, 138>>, exp |-> -51],
       [sign |-> -1, mag |-> <<15721, 18239, 28678, 202>>, exp |-> -52],
       [sign |-> -1, mag |-> <<31441, 3710, 24589, 149>>, exp |-> -52],
       [sign |-> -1, mag |-> <<26588, 20784, 2857, 217>>, exp |-> -53],
       [sign |-> -1, mag |-> <<31442, 3710, 24589, 149>>, exp |-> -53],
       [sign |-> -1, mag |-> <<18909, 17595, 20836, 185>>, exp |-> -54],
       [sign |-> -1, mag |-> <<22155, 29687, 104, 174>>, exp |-> -55],
       FZero >>,
    << [sign |-> -1, mag |-> <<9073, 4851, 19772, 212>>, exp |-> -51],
       [sign |-> -1, mag |-> <<9073, 4851, 19772, 148>>, exp |-> -51],
       [sign |-> -1, mag |-> <<2427, 24231, 10865, 222>>, exp |-> -52],
       [sign |-> -1, mag |-> <<18146, 9702, 6776, 169>>, exp |-> -52],
       [sign |-> -1, mag |-> <<0, 0, 0, 128>>, exp |-> -52],
       [sign |-> -1, mag |-> <<4853, 15694, 21731, 188>>, exp |-> -53],
       [sign |-> -1, mag |-> <<32019, 20780, 23944, 131>>, exp |-> -53],
       [sign |-> -1, mag |-> <<7050, 6042, 27105, 164>>, exp |-> -54],
       [sign |-> -1, mag |-> <<24717, 15164, 21337, 155>>, exp |-> -55],
       FZero >>,
    << [sign |-> -1, mag |-> <<23874, 30732, 13225, 221>>, exp |-> -51],
       [sign |-> -1, mag |-> <<23874, 30732, 13225, 157>>, exp |-> -51],
       [sign |-> -1, mag |-> <<32028, 10457, 30541, 239>>, exp |-> -52],
       [sign |-> -1, mag |-> <<14980, 28697, 26451, 186>>, exp |-> -52],
       [sign |-> -1, mag |-> <<29601, 18994, 19675, 145>>, exp |-> -52],
       [sign |-> -1, mag |-> <<31288, 20915, 28314, 223>>, exp |-> -53],
       [sign |-> -1, mag |-> <<25684, 26002, 30527, 166>>, exp |-> -53],
       [sign |-> -1, mag |-> <<27150, 16485, 7503, 235>>, exp |-> -54],
       [sign |-> -1, mag |-> <<32458, 1641, 7451, 148>>, exp |-> -54],
       [sign |-> -1, mag |-> <<7434, 20887, 26332, 140>>, exp |-> -55],
       FZero >>,
    << [sign |-> -1, mag |-> <<24244, 9119, 14339, 229>>, exp |-> -51],
       [sign |-> -1, mag |-> <<24244, 9119, 14339, 165>>, exp |-> -51],
       [sign |-> -1, mag |-> <<0, 0, 0, 128>>, exp |-> -51],
       [sign |-> -1, mag |-> <<15721, 18239, 28678, 202>>, exp |-> -52],
       [sign |-> -1, mag |-> <<30341, 8536, 21902, 161>>, exp |-> -52],
       [sign |-> -1, mag |-> <<0, 0, 0, 128>>, exp |-> -52],
       [sign |-> -1, mag |-> <<27165, 5086, 2213, 199>>, exp |-> -53],
       [sign |-> -1, mag |-> <<31442, 3710, 24589, 149>>, exp |-> -53],
       [sign |-> -1, mag |-> <<2654, 25346, 16357, 212>>, exp |-> -54],
       [sign |-> -1, mag |-> <<23062, 1379, 22073, 134>>, exp |-> -54],
       [sign |-> -1, mag |-> <<5928, 14640, 17813, 128>>, exp |-> -55],
       FZero >>,
    << [sign |-> -1, mag |-> <<25139, 18211, 27136, 236>>, exp |-> -51],
       [sign |-> -1, mag |-> <<25139, 18211, 27136, 172>>, exp |-> -51],
       [sign |-> -1, mag |-> <<895, 9092, 12797, 135>>, exp |-> -51],
       [sign |-> -1, mag |-> <<17510, 3655, 21505, 217>>, exp |-> -52],
       [sign |-> -1, mag |-> <<32131, 26720, 14728, 176>>, exp |-> -52],
       [sign |-> -1, mag |-> <<1789, 18184, 25594, 142>>, exp |-> -52],
       [sign |-> -1, mag |-> <<30745, 8686, 20634, 228>>, exp |-> -53],
       [sign |-> -1, mag |-> <<2251, 7311, 10242, 179>>, exp |-> -53],
       [sign |-> -1, mag |-> <<4906, 32657, 26599, 135>>, exp |-> -53],
       [sign |-> -1, mag |-> <<30219, 8579, 26147, 193>>, exp |-> -54],
       [sign |-> -1, mag |-> <<20242, 29040, 25961, 246>>, exp |-> -55],
       [sign |-> -1, mag |-> <<28625, 28800, 16296, 236>>, exp |-> -56],
       FZero >>,
    << [sign |-> -1, mag |-> <<1069, 32424, 21977, 243>>, exp |-> -51],
       [sign |-> -1, mag |-> <<1069, 32424, 21977, 179>>, exp |-> -51],
       [sign |-> -1, mag |-> <<9593, 23304, 7638, 142>>, exp |-> -51],
       [sign |-> -1, mag |-> <<2138, 32080, 11187, 231>>, exp |-> -52],
       [sign |-> -1, mag |-> <<16759, 22377, 4411, 190>>, exp |-> -52],
       [sign |-> -1, mag |-> <<19186, 13840, 15277, 156>>, exp |-> -52],
       [sign |-> -1, mag |-> <<0, 0, 0, 128>>, exp |-> -52],
       [sign |-> -1, mag |-> <<4276, 31392, 22375, 206>>, exp |-> -53],
       [sign |-> -1, mag |-> <<6929, 23970, 5965, 163>>, exp |-> -53],
       [sign |-> -1, mag |-> <<1499, 23974, 17646, 248>>, exp |-> -54],
       [sign |-> -1, mag |-> <<14168, 13530, 4480, 178>>, exp |-> -54],
       [sign |-> -1, mag |-> <<22413, 12420, 23915, 227>>, exp |-> -55],
       [sign |-> -1, mag |-> <<16185, 28808, 31533, 218>>, exp |-> -56],
       FZero >>,
    << [sign |-> -1, mag |-> <<550, 13971, 1343, 250>>, exp |-> -51],
       [sign |-> -1, mag |-> <<550, 13971, 1343, 186>>, exp |-> -51],
       [sign |-> -1, mag |-> <<9073, 4851, 19772, 148>>, exp |-> -51],
       [sign |-> -1, mag |-> <<1099, 27942, 2686, 244>>, exp |-> -52],
       [sign |-> -1, mag |-> <<15721, 18239, 28678, 202>>, exp |-> -52],
       [sign |-> -1, mag |-> <<18146, 9702, 6776, 169>>, exp |-> -52],
       [sign |-> -1, mag |-> <<31729, 28629, 24266, 140>>, exp |-> -52],
       [sign |-> -1, mag |-> <<2199, 23116, 5373, 232>>, exp |-> -53],
       [sign |-> -1, mag |-> <<4853, 15694, 21731, 188>>, exp |-> -53],
       [sign |-> -1, mag |-> <<31442, 3710, 24589, 149>>, exp |-> -53],
       [sign |-> -1, mag |-> <<10016, 29746, 3243, 229>>, exp |-> -54],
       [sign |-> -1, mag |-> <<7050, 6042, 27105, 164>>, exp |-> -54],
       [sign |-> -1, mag |-> <<32553, 30451, 13293, 211>>, exp |-> -55],
       [sign |-> -1, mag |-> <<16151, 32095, 27821, 203>>, exp |-> -56],
       FZero >>,
    << [sign |-> -1, mag |-> <<0, 0, 0, 128>>, exp |-> -50],
       [sign |-> -1, mag |-> <<0, 0, 0, 192>>, exp |-> -51],
       [sign |-> -1, mag |-> <<8524, 23648, 18428, 154>>, exp |-> -51],
       [sign |-> -1, mag |-> <<0, 0, 0, 128>>, exp |-> -51],
       [sign |-> -1, mag |-> <<14621, 23065, 25991, 214>>, exp |-> -52],
       [sign |-> -1, mag |-> <<17048, 14528, 4089, 181>>, exp |-> -52],
       [sign |-> -1, mag |-> <<30630, 687, 21580, 152>>, exp |-> -52],
       [sign |-> -1, mag |-> <<0, 0, 0, 128>>, exp |-> -52],
       [sign |-> -1, mag |-> <<2654, 25346, 16357, 212>>, exp |-> -53],
       [sign |-> -1, mag |-> <<29243, 13362, 19215, 173>>, exp |-> -53],
       [sign |-> -1, mag |-> <<2809, 8141, 12632, 138>>, exp |-> -53],
       [sign |-> -1, mag |-> <<2654, 25346, 16357, 212>>, exp |-> -54],
       [sign |-> -1, mag |-> <<28264, 18145, 12283, 153>>, exp |-> -54],
       [sign |-> -1, mag |-> <<15666, 5503, 8800, 197>>, exp |-> -55],
       [sign |-> -1, mag |-> <<15180, 11679, 22546, 190>>, exp |-> -56],
       FZero >>
  >>

\* math.log2(1 - c / total) at [total][c] for 1 <= c < total <= 16
Log2Compl ==
  <<
    <<>>,
    << [sign |-> -1, mag |-> <<0, 0, 0, 128>>, exp |-> -52] >>,
    << [sign |-> -1, mag |-> <<31440, 3710, 24589, 149>>, exp |-> -53],
       [sign |-> -1, mag |-> <<15720, 18239, 28678, 202>>, exp |-> -52] >>,
    << [sign |-> -1, mag |-> <<2654, 25346, 16357, 212>>, exp |-> -54],
       [sign |-> -1, mag |-> <<0, 0, 0, 128>>, exp |-> -52],
       [sign |-> -1, mag |-> <<0, 0, 0, 128>>, exp |-> -51] >>,
    << [sign |-> -1, mag |-> <<7050, 6042, 27105, 164>>, exp |-> -54],
       [sign |-> -1, mag |-> <<4853, 15694, 21731, 188>>, exp |-> -53],
       [sign |-> -1, mag |-> <<18146, 9702, 6776, 169>>, exp |-> -52],
       [sign |-> -1, mag |-> <<9074, 4851, 19772, 148>>, exp |-> -51] >>,
    << [sign |-> -1, mag |-> <<23062, 1379, 22073, 134>>, exp |-> -54],
       [sign |-> -1, mag |-> <<31440, 3710, 24589, 149>>, exp |-> -53],
       [sign |-> -1, mag |-> <<0, 0, 0, 128>>, exp |-> -52],
       [sign |-> -1, mag |-> <<15720, 18239, 28678, 202>>, exp |-> -52],
       [sign |-> -1, mag |-> <<24245, 9119, 14339, 165>>, exp |-> -51] >>,
    << [sign |-> -1, mag |-> <<22406, 12420, 23915, 227>>, exp |-> -55],
       [sign |-> -1, mag |-> <<1499, 23974, 17646, 248>>, exp |-> -54],
       [sign |-> -1, mag |-> <<4276, 31392, 22375, 206>>, exp |-> -53],
       [sign |-> -1, mag |-> <<19185, 13840, 15277, 156>>, exp |-> -52],
       [sign |-> -1, mag |-> <<2138, 32080, 11187, 231>>, exp |-> -52],
       [sign |-> -1, mag |-> <<1068, 32424, 21977, 179>>, exp |-> -51] >>,
    << [sign |-> -1, mag |-> <<15666, 5503, 8800, 197>>, exp |-> -55],
       [sign |-> -1, mag |-> <<2654, 25346, 16357, 212>>, exp |-> -54],
       [sign |-> -1, mag |-> <<29243, 13362, 19215, 173>>, exp |-> -53],
       [sign |-> -1, mag |-> <<0, 0, 0, 128>>, exp |-> -52],
       [sign |-> -1, mag |-> <<17048, 14528, 4089, 181>>, exp |-> -52],
       [sign |-> -1, mag |-> <<0, 0, 0, 128>>, exp |-> -51],
       [sign |-> -1, mag |-> <<0, 0, 0, 192>>, exp |-> -51] >>,
    << [sign |-> -1, mag |-> <<22155, 29687, 104, 174>>, exp |-> -55],
       [sign |-> -1, mag |-> <<18909, 17595, 20836, 185>>, exp |-> -54],
       [sign |-> -1, mag |-> <<31440, 3710, 24589, 149>>, exp |-> -53],
       [sign |-> -1, mag |-> <<26588, 20784, 2857, 217>>, exp |-> -53],
       [sign |-> -1, mag |-> <<31441, 3710, 24589, 149>>, exp |-> -52],
       [sign |-> -1, mag |-> <<15720, 18239, 28678, 202>>, exp |-> -52],
       [sign |-> -1, mag |-> <<15721, 18239, 28678, 138>>, exp |-> -51],
       [sign |-> -1, mag |-> <<15719, 18239, 28678, 202>>, exp |-> -51] >>,
    << [sign |-> -1, mag |-> <<24717, 15164, 21337, 155>>, exp |-> -55],
       [sign |-> -1, mag |-> <<7050, 6042, 27105, 164>>, exp |-> -54],
       [sign |-> -1, mag |-> <<32019, 20780, 23944, 131>>, exp |-> -53],
       [sign |-> -1, mag |-> <<4853, 15694, 21731, 188>>, exp |-> -53],
       [sign |-> -1, mag |-> <<0, 0, 0, 128>>, exp |-> -52],
       [sign |-> -1, mag |-> <<18146, 9702, 6776, 169>>, exp |-> -52],
       [sign |-> -1, mag |-> <<2425, 24231, 10865, 222>>, exp |-> -52],
       [sign |-> -1, mag |-> <<9074, 4851, 19772, 148>>, exp |-> -51],
       [sign |-> -1, mag |-> <<9074, 4851, 19772, 212>>, exp |-> -51] >>,
    << [sign |-> -1, mag |-> <<7434, 20887, 26332, 140>>, exp |-> -55],
       [sign |-> -1, mag |-> <<32461, 1641, 7451, 148>>, exp |-> -54],
       [sign |-> -1, mag |-> <<27150, 16485, 7503, 235>>, exp |-> -54],
       [sign |-> -1, mag |-> <<25684, 26002, 30527, 166>>, exp |-> -53],
       [sign |-> -1, mag |-> <<31288, 20915, 28314, 223>>, exp |-> -53],
       [sign |-> -1, mag |-> <<29600, 18994, 19675, 145>>, exp |-> -52],
       [sign |-> -1, mag |-> <<14980, 28697, 26451, 186>>, exp |-> -52],
       [sign |-> -1, mag |-> <<32028, 10457, 30541, 239>>, exp |-> -52],
       [sign |-> -1, mag |-> <<23875, 30732, 13225, 157>>, exp |-> -51],
       [sign |-> -1, mag |-> <<23873, 30732, 13225, 221>>, exp |-> -51] >>,
    << [sign |-> -1, mag |-> <<5928, 14640, 17813, 128>>, exp |-> -55],
       [sign |-> -1, mag |-> <<23062, 1379, 22073, 134>>, exp |-> -54],
       [sign |-> -1, mag |-> <<2654, 25346, 16357, 212>>, exp |-> -54],
       [sign |-> -1, mag |-> <<31440, 3710, 24589, 149>>, exp |-> -53],
       [sign |-> -1, mag |-> <<27167, 5086, 2213, 199>>, exp |-> -53],
       [sign |-> -1, mag |-> <<0, 0, 0, 128>>, exp |-> -52],
       [sign |-> -1, mag |-> <<30342, 8536, 21902, 161>>, exp |-> -52],
       [sign |-> -1, mag |-> <<15720, 18239, 28678, 202>>, exp |-> -52],
       [sign |-> -1, mag |-> <<0, 0, 0, 128>>, exp |-> -51],
       [sign |-> -1, mag |-> <<24245, 9119, 14339, 165>>, exp |-> -51],
       [sign |-> -1, mag |-> <<24243, 9119, 14339, 229>>, exp |-> -51] >>,
    << [sign |-> -1, mag |-> <<28625, 28800, 16296, 236>>, exp |-> -56],
       [sign |-> -1, mag |-> <<20242, 29040, 25961, 246>>, exp |-> -55],
       [sign |-> -1, mag |-> <<30223, 8579, 26147, 193>>, exp |-> -54],
       [sign |-> -1, mag |-> <<4906, 32657, 26599, 135>>, exp |-> -53],
       [sign |-> -1, mag |-> <<2251, 7311, 10242, 179>>, exp |-> -53],
       [sign |-> -1, mag |-> <<30745, 8686, 20634, 228>>, exp |-> -53],
       [sign |-> -1, mag |-> <<1789, 18184, 25594, 142>>, exp |-> -52],
       [sign |-> -1, mag |-> <<32132, 26720, 14728, 176>>, exp |-> -52],
       [sign |-> -1, mag |-> <<17510, 3655, 21505, 217>>, exp |-> -52],
       [sign |-> -1, mag |-> <<895, 9092, 12797, 135>>, exp |-> -51],
       [sign |-> -1, mag |-> <<25139, 18211, 27136, 172>>, exp |-> -51],
       [sign |-> -1, mag |-> <<25141, 18211, 27136, 236>>, exp |-> -51] >>,
    << [sign |-> -1, mag |-> <<16185, 28808, 31533, 218>>, exp |-> -56],
       [sign |-> -1, mag |-> <<22406, 12420, 23915, 227>>, exp |-> -55],
       [sign |-> -1, mag |-> <<14168, 13530, 4480, 178>>, exp |-> -54],
       [sign |-> -1, mag |-> <<1499, 23974, 17646, 248>>, exp |-> -54],
       [sign |-> -1, mag |-> <<6931, 23970, 5965, 163>>, exp |-> -53],
       [sign |-> -1, mag |-> <<4276, 31392, 22375, 206>>, exp |-> -53],
       [sign |-> -1, mag |-> <<0, 0, 0, 128>>, exp |-> -52],
       [sign |-> -1, mag |-> <<19185, 13840, 15277, 156>>, exp |-> -52],
       [sign |-> -1, mag |-> <<16760, 22377, 4411, 190>>, exp |-> -52],
       [sign |-> -1, mag |-> <<2138, 32080, 11187, 231>>, exp |-> -52],
       [sign |-> -1, mag |-> <<9592, 23304, 7638, 142>>, exp |-> -51],
       [sign |-> -1, mag |-> <<1068, 32424, 21977, 179>>, exp |-> -51],
       [sign |-> -1, mag |-> <<1070, 32424, 21977, 243>>, exp |-> -51] >>,
    << [sign |-> -1, mag |-> <<16151, 32095, 27821, 203>>, exp |-> -56],
       [sign |-> -1, mag |-> <<32553, 30451, 13293, 211>>, exp |-> -55],
       [sign |-> -1, mag |-> <<7050, 6042, 27105, 164>>, exp |-> -54],
       [sign |-> -1, mag |-> <<10012, 29746, 3243, 229>>, exp |-> -54],
       [sign |-> -1, mag |-> <<31440, 3710, 24589, 149>>, exp |-> -53],
       [sign |-> -1, mag |-> <<4853, 15694, 21731, 188>>, exp |-> -53],
       [sign |-> -1, mag |-> <<2199, 23116, 5373, 232>>, exp |-> -53],
       [sign |-> -1, mag |-> <<31729, 28629, 24266, 140>>, exp |-> -52],
       [sign |-> -1, mag |-> <<18146, 9702, 6776, 169>>, exp |-> -52],
       [sign |-> -1, mag |-> <<15720, 18239, 28678, 202>>, exp |-> -52],
       [sign |-> -1, mag |-> <<1098, 27942, 2686, 244>>, exp |-> -52],
       [sign |-> -1, mag |-> <<9074, 4851, 19772, 148>>, exp |-> -51],
       [sign |-> -1, mag |-> <<550, 13971, 1343, 186>>, exp |-> -51],
       [sign |-> -1, mag |-> <<550, 13971, 1343, 250>>, exp |-> -51] >>,
    << [sign |-> -1, mag |-> <<15180, 11679, 22546, 190>>, exp |-> -56],
       [sign |-> -1, mag |-> <<15666, 5503, 8800, 197>>, exp |-> -55],
       [sign |-> -1, mag |-> <<28264, 18145, 12283, 153>>, exp |-> -54],
       [sign |-> -1, mag |-> <<2654, 25346, 16357, 212>>, exp |-> -54],
       [sign |-> -1, mag |-> <<2809, 8141, 12632, 138>>, exp |-> -53],
       [sign |-> -1, mag |-> <<29243, 13362, 19215, 173>>, exp |-> -53],
       [sign |-> -1, mag |-> <<2654, 25346, 16357, 212>>, exp |-> -53],
       [sign |-> -1, mag |-> <<0, 0, 0, 128>>, exp |-> -52],
       [sign |-> -1, mag |-> <<30630, 687, 21580, 152>>, exp |-> -52],
       [sign |-> -1, mag |-> <<17048, 14528, 4089, 181>>, exp |-> -52],
       [sign |-> -1, mag |-> <<14621, 23065, 25991, 214>>, exp |-> -52],
       [sign |-> -1, mag |-> <<0, 0, 0, 128>>, exp |-> -51],
       [sign |-> -1, mag |-> <<8524, 23648, 18428, 154>>, exp |-> -51],
       [sign |-> -1, mag |-> <<0, 0, 0, 192>>, exp |-> -51],
       [sign |-> -1, mag |-> <<0, 0, 0, 128>>, exp |-> -50] >>
  >>

\* -sum((c / total) * math.log2(c / total) for c in freq.values()): the sum
\* over the counts in their order, from 0
RECURSIVE EntropySum(_, _, _)
EntropySum(fd, total, acc) ==
  IF fd = <<>> THEN acc
  ELSE EntropySum(Tail(fd), total,
                  FAdd(acc, FMul(FDiv(Head(fd).freq, total),
                                 Log2Quot[total][Head(fd).freq])))

\* -p * log2(p) - q * log2(q) for floats p, q and their logarithms
BinaryEntropy(p, q, log2p, log2q) ==
  FSub(FMul(FNeg(p), log2p), FMul(q, log2q))

(***************************************************************************)
(* compression_analysis: run-length codes.                                 *)
(***************************************************************************)
\* int(math.ceil(math.log2(m))) for m >= 1
RECURSIVE CeilLog2From(_, _, _)
CeilLog2From(m, b, pow) ==
  IF pow >= m THEN b ELSE CeilLog2From(m, b + 1, 2 * pow)

CeilLog2(m) == CeilLog2From(m, 0, 1)

\* bin(r)[2:] : the binary digits of r >= 0, most significant first
RECURSIVE BinDigits(_)
BinDigits(r) ==
  IF r < 2 THEN <<IF r = 1 THEN "1" ELSE "0">>
  ELSE BinDigits(r \div 2) \o <<IF r % 2 = 1 THEN "1" ELSE "0">>

\* format(r, f'0{b}b') : zero-padded to at least b digits
FormatBin(r, b) ==
  LET d == BinDigits(r)
  IN IF Len(d) >= b THEN d ELSE Repeat("0", b - Len(d)) \o d

encode_run_length_unary(length) == Repeat("1", length) \o <<"0">>

\* mutation: the "- 1" forgotten in the quotient and the remainder
encode_run_length_golomb_noshift(length, m) ==
  LET q == length \div m
      r == length % m
      b == IF m > 1 THEN CeilLog2(m) ELSE 1
      unary == Repeat("1", q) \o <<"0">>
      binary == FormatBin(r, b)
  IN unary \o binary

\* mutation: the zero that ends the unary quotient forgotten
encode_run_length_golomb_nozero(length, m) ==
  LET q == (length - 1) \div m
      r == (length - 1) % m
      b == IF m > 1 THEN CeilLog2(m) ELSE 1
      unary == Repeat("1", q)
      binary == FormatBin(r, b)
  IN unary \o binary

encode_run_length_golomb(length, m) ==
  LET q == (length - 1) \div m
      r == (length - 1) % m
      b == IF m > 1 THEN CeilLog2(m) ELSE 1
      unary == Repeat("1", q) \o <<"0">>
      binary == FormatBin(r, b)
  IN unary \o binary

\* errors = [0 if t == 1 else 1 for t in transitions]
RECURSIVE Errors(_)
Errors(ts) ==
  IF ts = <<>> THEN <<>>
  ELSE <<IF Head(ts) = 1 THEN 0 ELSE 1>> \o Errors(Tail(ts))

\* encoded_runs: (bit_val, length, code) for every run
RECURSIVE EncodedRuns(_, _, _)
EncodedRuns(rs, use_golomb, golomb_m) ==
  IF rs = <<>> THEN <<>>
  ELSE LET code == IF use_golomb
                   THEN encode_run_length_golomb(Head(rs)[2], golomb_m)
                   ELSE encode_run_length_unary(Head(rs)[2])
       IN <<<<Head(rs)[1], Head(rs)[2], code>>>>
          \o EncodedRuns(Tail(rs), use_golomb, golomb_m)

RECURSIVE CodeBits(_)
CodeBits(ers) ==
  IF ers = <<>> THEN 0 ELSE Len(Head(ers)[3]) + CodeBits(Tail(ers))

(***************************************************************************)
(* Build harness: the three Huffman builds applied to an arbitrary         *)
(* frequency table, and huffman_encode applied to an arbitrary symbol list.*)
(***************************************************************************)
\* every dict with m <= MaxSyms keys and counts in 1..MaxCount; the build
\* reads the keys only to copy them into the table, so the keys are named
\* by their insertion position: 1, 2, ..., m
RECURSIVE DictOfCounts(_, _)
DictOfCounts(cs, i) ==
  IF i > Len(cs) THEN <<>>
  ELSE <<[sym |-> i, freq |-> cs[i]]>> \o DictOfCounts(cs, i + 1)

FreqDicts ==
  UNION {{DictOfCounts(c, 1) : c \in [1..m -> 1..MaxCount]} : m \in 0..MaxSyms}

Messages == SeqsUpTo(1..MaxSyms, MaxMsg)

NoLoc == <<>>

Idle ==
  /\ heap = <<>> /\ merges = 0 /\ tree = NoneNode /\ codes = EmptyDict
  /\ symbols = <<>> /\ encoded = <<>>
  /\ flips = <<>> /\ transitions = <<>> /\ runs = <<>>
  /\ loc = NoLoc /\ results = EmptyDict

InitBuild ==
  /\ script \in {"build_huffman_tree", "build_huffman_codes",
                  "rl_build_huffman_codes"}
  /\ pc = "start"
  /\ error = "none"
  /\ freq_dict \in FreqDicts
  /\ Idle

\* huffman_compression.build_huffman_tree, lines 55-56
TreeHeapify ==
  /\ script = "build_huffman_tree" /\ pc = "start"
  /\ heap' = heapify(NodeList(freq_dict))
  /\ merges' = 0
  /\ pc' = "merge"
  /\ UNCHANGED <<script, error, freq_dict, tree, codes, symbols, encoded,
                 flips, transitions, runs, loc, results>>

\* one iteration of the loop of lines 58-64
TreeMerge ==
  /\ script = "build_huffman_tree" /\ pc = "merge"
  /\ Len(heap) > 1
  /\ heap' = MergeStep(heap)
  /\ merges' = merges + 1
  /\ UNCHANGED <<script, pc, error, freq_dict, tree, codes, symbols, encoded,
                 flips, transitions, runs, loc, results>>

\* line 66: return heap[0] if heap else None
TreeReturn ==
  /\ script = "build_huffman_tree" /\ pc = "merge"
  /\ ~(Len(heap) > 1)
  /\ tree' = IF heap # <<>> THEN heap[1] ELSE NoneNode
  /\ pc' = "tree"
  /\ UNCHANGED <<script, error, freq_dict, heap, merges, codes, symbols,
                 encoded, flips, transitions, runs, loc, results>>

\* codes = get_huffman_codes(tree); node.symbol on None raises
GetCodes ==
  /\ script = "build_huffman_tree" /\ pc = "tree"
  /\ IF tree.kind = "None"
     THEN /\ error' = "AttributeError" /\ pc' = "raised"
          /\ UNCHANGED codes
     ELSE /\ codes' = get_huffman_codes(tree, <<>>, EmptyDict)
          /\ pc' = "codes"
          /\ UNCHANGED error
  /\ UNCHANGED <<script, freq_dict, heap, merges, tree, symbols, encoded,
                 flips, transitions, runs, loc, results>>

\* encoded = huffman_encode(symbols, codes); codes[s] on a missing s raises
Encode ==
  /\ script = "build_huffman_tree" /\ pc = "codes"
  /\ \E syms \in Messages :
       /\ symbols' = syms
       /\ IF \A i \in 1..Len(syms) : syms[i] \in DOMAIN codes
          THEN /\ encoded' = huffman_encode(syms, codes)
               /\ pc' = "done"
               /\ UNCHANGED error
          ELSE /\ error' = "KeyError" /\ pc' = "raised"
               /\ UNCHANGED encoded
  /\ UNCHANGED <<script, freq_dict, heap, merges, tree, codes,
                 flips, transitions, runs, loc, results>>

\* advanced_compression.build_huffman_codes(freq_dict)
BuildCodesAdvanced ==
  /\ script = "build_huffman_codes" /\ pc = "start"
  /\ codes' = build_huffman_codes(freq_dict)
  /\ pc' = "codes"
  /\ UNCHANGED <<script, error, freq_dict, heap, merges, tree, symbols,
                 encoded, flips, transitions, runs, loc, results>>

\* runlength_huffman.build_huffman_codes(freq_dict)
BuildCodesRunlength ==
  /\ script = "rl_build_huffman_codes" /\ pc = "start"
  /\ codes' = rl_build_huffman_codes(freq_dict)
  /\ pc' = "codes"
  /\ UNCHANGED <<script, error, freq_dict, heap, merges, tree, symbols,
                 encoded, flips, transitions, runs, loc, results>>

NextBuild ==
  \/ TreeHeapify
  \/ TreeMerge
  \/ TreeReturn
  \/ GetCodes
  \/ Encode
  \/ BuildCodesAdvanced
  \/ BuildCodesRunlength

SpecBuild == InitBuild /\ [][NextBuild]_vars

\* the loop of build_huffman_tree runs on: weak fairness of the iteration
\* and of the return, WF_vars(TreeMerge) and WF_vars(TreeReturn), with
\* ENABLED written out as the guard of the action (a merge always changes
\* heap and merges, the return always changes pc)
InMergeLoop == script = "build_huffman_tree" /\ pc = "merge"

SpecBuildFair ==
  /\ SpecBuild
  /\ ([]<>~(InMergeLoop /\ Len(heap) > 1) \/ []<><<TreeMerge>>_vars)
  /\ ([]<>~(InMergeLoop /\ ~(Len(heap) > 1)) \/ []<><<TreeReturn>>_vars)

(***************************************************************************)
(* The analysis entry points, each run on an arbitrary flip string.        *)
(***************************************************************************)
FlipStrings == SeqsUpTo({"H", "T"}, MaxFlips)

Init ==
  /\ script \in {"analyze_sequence", "analyze_compression",
                  "compress_sequence", "analyze_and_compress"}
  /\ pc = "start"
  /\ error = "none"
  /\ flips \in FlipStrings
  /\ freq_dict = <<>> /\ heap = <<>> /\ merges = 0 /\ tree = NoneNode
  /\ codes = EmptyDict /\ symbols = <<>> /\ encoded = <<>>
  /\ transitions = <<>> /\ runs = <<>>
  /\ loc = NoLoc /\ results = EmptyDict

BuildVars == <<freq_dict, heap, merges, tree, codes, symbols, encoded>>

\* the locals of analyze_sequence that later steps read
LocalsAtStart(c1, c0) ==
  [codes_1 |-> c1, codes_0 |-> c0,
   pairs |-> <<>>, leftover |-> None, pair_codes |-> EmptyDict,
   triples |-> <<>>, triple_codes |-> EmptyDict,
   quads |-> <<>>, quad_codes |-> EmptyDict,
   quintuples |-> <<>>, quint_codes |-> EmptyDict,
   sextuples |-> <<>>, sext_codes |-> EmptyDict,
   leftover_runs |-> <<>>]

\* mutation: the run-type header bit forgotten (bits_separate = 1)
SeparateMethod_oneheader(rs, codes_1, codes_0) ==
  [bits |-> 1 + RunsBits(rs, codes_1, codes_0)]

\* Method 1 (lines 107-111): the bit count of the separate tables
SeparateMethod(rs, codes_1, codes_0) ==
  [bits |-> 2 + RunsBits(rs, codes_1, codes_0)]

\* Method 2 (lines 113-128): pairs of run lengths, one table
PairedMethod(rs, codes_1, codes_0) ==
  LET pairs == GroupTuples(rs, 2)
      lo == leftover(rs)
      pair_codes == build_huffman_codes(Counter(pairs))
  IN [pairs |-> pairs, leftover |-> lo, pair_codes |-> pair_codes,
      bits |-> 2 + TableBits(pairs, pair_codes)
                 + (IF lo # None THEN RunBits(lo, codes_1, codes_0) ELSE 0)]

\* Methods 3 to 6 (lines 130-192) are the same code at k = 3, 4, 5, 6
TupleBitsMethod(rs, k, codes_1, codes_0) ==
  LET tuples == GroupTuples(rs, k)
      lr == leftover_runs(rs, k)
      tuple_codes == IF tuples # <<>>
                     THEN build_huffman_codes(Counter(tuples))
                     ELSE EmptyDict
  IN [tuples |-> tuples, leftover_runs |-> lr, tuple_codes |-> tuple_codes,
      bits |-> 2 + TableBits(tuples, tuple_codes)
                 + RunsBits(lr, codes_1, codes_0)]

\* methods = ['separate', 'paired', 'triple', 'quad', '5-tuple', '6-tuple']
Methods == <<"separate", "paired", "triple", "quad", "5-tuple", "6-tuple">>

\* the entry of a method in the results dict: lines 111, 128, 144, ..., 192
MethodResult(bits, n) == [bits |-> bits, ratio |-> Ratio(bits, n)]

GroupedResult(bits, n, table) ==
  [bits |-> bits, ratio |-> Ratio(bits, n),
   unique |-> Cardinality(DOMAIN table)]

PairedResult(m, n) == GroupedResult(m.bits, n, m.pair_codes)

TupleResult(m, n) == GroupedResult(m.bits, n, m.tuple_codes)

\* lines 107-192: the six methods on the runs and the two separate tables
MethodResults(n, rs, c1, c0) ==
  ("separate" :> MethodResult(SeparateMethod(rs, c1, c0).bits, n))
  @@ ("paired" :> PairedResult(PairedMethod(rs, c1, c0), n))
  @@ ("triple" :> TupleResult(TupleBitsMethod(rs, 3, c1, c0), n))
  @@ ("quad" :> TupleResult(TupleBitsMethod(rs, 4, c1, c0), n))
  @@ ("5-tuple" :> TupleResult(TupleBitsMethod(rs, 5, c1, c0), n))
  @@ ("6-tuple" :> TupleResult(TupleBitsMethod(rs, 6, c1, c0), n))

\* lines 95-194 given n, transitions, runs, runs_1 and runs_0
AnalyzeRuns(n, ts, rs, runs_1, runs_0) ==
  IF Len(ts) = 0
  THEN \* alt_rate = sum(transitions) / len(transitions)
       [error |-> "ZeroDivisionError"]
  ELSE [error |-> "none",
        results |->
          [n |-> n, num_runs |-> Len(rs),
           runs_1 |-> runs_1, runs_0 |-> runs_0,
           alt_rate |-> Ratio(SumSeq(ts), Len(ts))]
          @@ MethodResults(n, rs, build_huffman_codes(Counter(runs_1)),
                           build_huffman_codes(Counter(runs_0)))]

\* lines 89-194 given n and transitions
AnalyzeTransitions(n, ts, rs) ==
  AnalyzeRuns(n, ts, rs, LengthsOf(rs, 1), LengthsOf(rs, 0))

\* analyze_sequence(flips) as a call: the returned dict, or the exception
analyze_sequence(fl) ==
  AnalyzeTransitions(Len(fl), to_transitions(fl),
                     get_runs(to_transitions(fl)))

\* analyze_sequence, lines 87-105
AS_Start ==
  /\ script = "analyze_sequence" /\ pc = "start"
  /\ LET ts == to_transitions(flips)
         rs == get_runs(ts)
         runs_1 == LengthsOf(rs, 1)
         runs_0 == LengthsOf(rs, 0)
     IN /\ transitions' = ts
        /\ runs' = rs
        /\ IF Len(ts) = 0
           THEN /\ error' = "ZeroDivisionError" /\ pc' = "raised"
                /\ UNCHANGED <<loc, results>>
           ELSE /\ results' = [n |-> Len(flips), num_runs |-> Len(rs),
                               runs_1 |-> runs_1, runs_0 |-> runs_0,
                               alt_rate |-> Ratio(SumSeq(ts), Len(ts))]
                /\ loc' = LocalsAtStart(build_huffman_codes(Counter(runs_1)),
                                        build_huffman_codes(Counter(runs_0)))
                /\ pc' = "separate"
                /\ UNCHANGED error
  /\ UNCHANGED <<script, flips, BuildVars>>

\* Method 1, lines 107-111
AS_Separate ==
  /\ script = "analyze_sequence" /\ pc = "separate"
  /\ LET bits == SeparateMethod(runs, loc.codes_1, loc.codes_0).bits
     IN results' = results @@
          ("separate" :> [bits |-> bits, ratio |-> Ratio(bits, results.n)])
  /\ pc' = "paired"
  /\ UNCHANGED <<script, error, flips, transitions, runs, loc, BuildVars>>

\* Method 2, lines 113-128
AS_Paired ==
  /\ script = "analyze_sequence" /\ pc = "paired"
  /\ LET m == PairedMethod(runs, loc.codes_1, loc.codes_0)
         pairs == m.pairs
         lo == m.leftover
         pair_codes == m.pair_codes
         bits == m.bits
     IN /\ loc' = [loc EXCEPT !.pairs = pairs, !.leftover = lo,
                              !.pair_codes = pair_codes]
        /\ results' = results @@
             ("paired" :> [bits |-> bits, ratio |-> Ratio(bits, results.n),
                           unique |-> Cardinality(DOMAIN pair_codes)])
  /\ pc' = "triple"
  /\ UNCHANGED <<script, error, flips, transitions, runs, BuildVars>>

\* Methods 3 to 6 as steps of the script
TupleMethod(k, method, tuples_name, codes_name, next_pc) ==
  /\ script = "analyze_sequence" /\ pc = method
  /\ LET m == TupleBitsMethod(runs, k, loc.codes_1, loc.codes_0)
         tuples == m.tuples
         lr == m.leftover_runs
         tuple_codes == m.tuple_codes
         bits == m.bits
     IN /\ loc' = [loc EXCEPT ![tuples_name] = tuples,
                              ![codes_name] = tuple_codes,
                              !.leftover_runs = lr]
        /\ results' = results @@
             (method :> [bits |-> bits, ratio |-> Ratio(bits, results.n),
                         unique |-> Cardinality(DOMAIN tuple_codes)])
  /\ pc' = next_pc
  /\ UNCHANGED <<script, error, flips, transitions, runs, BuildVars>>

AS_Triple == TupleMethod(3, "triple", "triples", "triple_codes", "quad")

AS_Quad == TupleMethod(4, "quad", "quads", "quad_codes", "5-tuple")

AS_Quint == TupleMethod(5, "5-tuple", "quintuples", "quint_codes", "6-tuple")

AS_Sext == TupleMethod(6, "6-tuple", "sextuples", "sext_codes", "done")

\* runlength_huffman.analyze_compression, lines 115-119 and 184: the divisor
\* (1 - theoretical_min/original_bits)*100 of the efficiency is 0.0 exactly
\* when theoretical_min = 1 + entropy * t_len equals n = t_len + 1, that is
\* when the binary entropy of alt_rate is 1.0, that is when alt_rate = 0.5
EfficiencyDivisorIsZero(ones, t_len) == 2 * ones = t_len

\* lines 114-118: the entropy of the transition stream
rl_entropy(ones, t_len) ==
  IF 0 < ones /\ ones < t_len
  THEN BinaryEntropy(FDiv(ones, t_len), FSub(FFromInt(1), FDiv(ones, t_len)),
                     Log2Quot[t_len][ones], Log2Compl[t_len][ones])
  ELSE FZero

\* runlength_huffman.analyze_compression, lines 101-197
analyze_compression(fl) ==
  LET n == Len(fl)
      ts == to_transitions(fl)
      t_len == Len(ts)
      ones == SumSeq(ts)
      entropy == rl_entropy(ones, t_len)
      rs == rl_get_runs(ts)
      run_codes == rl_build_huffman_codes(Counter(AllLengths(rs)))
      encoded_bits == 1 + 1 + TableBits(AllLengths(rs), run_codes)
  IN IF t_len = 0
     THEN \* alt_rate = ones / t_len
          [error |-> "ZeroDivisionError", transitions |-> ts, runs |-> <<>>]
     ELSE IF encoded_bits < n /\ EfficiencyDivisorIsZero(ones, t_len)
     THEN \* if savings > 0: efficiency = savings / 0.0
          [error |-> "ZeroDivisionError", transitions |-> ts, runs |-> rs]
     ELSE [error |-> "none", transitions |-> ts, runs |-> rs,
           results |-> [original |-> n, encoded |-> encoded_bits,
                        ratio |-> Ratio(encoded_bits, n),
                        savings |-> Savings(encoded_bits, n),
                        alt_rate |-> Ratio(ones, t_len),
                        entropy |-> entropy,
                        theoretical_min |->
                          FAdd(FFromInt(1), FMulInt(entropy, t_len)),
                        runs |-> rs, run_codes |-> run_codes]]

\* the script run on the flip string
AnalyzeCompression ==
  /\ script = "analyze_compression" /\ pc = "start"
  /\ \E r \in {analyze_compression(flips)} :
        /\ transitions' = r.transitions
        /\ runs' = r.runs
        /\ error' = r.error
        /\ IF r.error # "none"
           THEN pc' = "raised" /\ UNCHANGED results
           ELSE pc' = "done" /\ results' = r.results
  /\ UNCHANGED <<script, flips, loc, BuildVars>>

\* lines 169-175: the entropy of the error stream, p0 = 0.5 when it is empty
ca_entropy(zeros, len) ==
  IF len = 0
  THEN BinaryEntropy(FDiv(1, 2), FSub(FFromInt(1), FDiv(1, 2)),
                     Log2Quot[2][1], Log2Compl[2][1])
  ELSE IF 0 < zeros /\ zeros < len
  THEN BinaryEntropy(FDiv(zeros, len), FSub(FFromInt(1), FDiv(zeros, len)),
                     Log2Quot[len][zeros], Log2Compl[len][zeros])
  ELSE FZero

\* theoretical_min = 1 + entropy * len(errors)
ca_theoretical_min(entropy, len) ==
  IF len = 0 THEN FFromInt(1) ELSE FAdd(FFromInt(1), FMulInt(entropy, len))

\* compression_analysis.compress_sequence, lines 144-193, with
\* prediction_encode (lines 57-81) inlined (theoretical_ratio left out)
compress_sequence(fl, use_golomb, golomb_m) ==
  LET n == Len(fl)
      bits == to_bits(fl)
      ts == get_transitions(bits)
      errors == Errors(ts)
      rs == run_length_encode(errors)
      ers == EncodedRuns(rs, use_golomb, golomb_m)
      compressed_bits == 1 + CodeBits(ers) + 1
      num_correct == Len(errors) - SumSeq(errors)
      entropy == ca_entropy(num_correct, Len(errors))
  IN IF bits = <<>>
     THEN \* first_bit = bits[0]
          [error |-> "IndexError"]
     ELSE [error |-> "none", transitions |-> ts, runs |-> rs,
           results |->
             [original_bits |-> n,
              compressed_bits |-> compressed_bits,
              compression_ratio |-> Ratio(compressed_bits, n),
              savings_percent |-> Savings(compressed_bits, n),
              entropy_per_error_bit |-> entropy,
              theoretical_min_bits |->
                ca_theoretical_min(entropy, Len(errors)),
              num_runs |-> Len(rs), runs |-> rs,
              encoded_runs |-> ers, error_stream |-> errors,
              first_bit |-> bits[1],
              num_transitions |-> Len(ts),
              num_alternations |-> num_correct,
              num_same |-> SumSeq(errors),
              alternation_rate |->
                IF errors # <<>>
                THEN Ratio(num_correct, Len(errors))
                ELSE Ratio(0, 1)]]

\* the script run on the flip string, with either run-length code
CompressSequence ==
  /\ script = "compress_sequence" /\ pc = "start"
  /\ \E use_golomb \in BOOLEAN, golomb_m \in 1..MaxGolombM :
       \E r \in {compress_sequence(flips, use_golomb, golomb_m)} :
          /\ loc' = [use_golomb |-> use_golomb, golomb_m |-> golomb_m]
          /\ error' = r.error
          /\ IF r.error # "none"
             THEN pc' = "raised" /\ UNCHANGED <<transitions, runs, results>>
             ELSE /\ pc' = "done"
                  /\ transitions' = r.transitions
                  /\ runs' = r.runs
                  /\ results' = r.results
  /\ UNCHANGED <<script, flips, BuildVars>>

(***************************************************************************)
(* huffman_compression.analyze_and_compress.                               *)
(***************************************************************************)
\* str(t) for a transition t in {0, 1}
Str(t) == IF t = 1 THEN "1" ELSE "0"

\* ''.join(map(str, xs))
RECURSIVE JoinStr(_)
JoinStr(xs) ==
  IF xs = <<>> THEN <<>> ELSE <<Str(Head(xs))>> \o JoinStr(Tail(xs))

\* [''.join(map(str, stream[i:i+n])) for i in range(len(stream) - n + 1)]
RECURSIVE NgramsFrom(_, _, _)
NgramsFrom(stream, n, i) ==
  IF i < Len(stream) - n + 1
  THEN <<JoinStr(SubSeq(stream, i + 1, i + n))>> \o NgramsFrom(stream, n, i + 1)
  ELSE <<>>

get_ngrams(stream, n) == NgramsFrom(stream, n, 0)

\* sum(freq.values())
RECURSIVE FreqTotal(_)
FreqTotal(fd) ==
  IF fd = <<>> THEN 0 ELSE Head(fd).freq + FreqTotal(Tail(fd))

\* sum(len(codes[s]) * freq[s] for s in freq)
RECURSIVE CodeLenByFreq(_, _)
CodeLenByFreq(fd, cs) ==
  IF fd = <<>> THEN 0
  ELSE Len(cs[Head(fd).sym]) * Head(fd).freq + CodeLenByFreq(Tail(fd), cs)

\* min(results.items(), key=lambda x: x[1]['ratio'])[0]: the first key, in
\* insertion order, whose ratio is minimal
BestNgram(res) ==
  CHOOSE k \in DOMAIN res :
    /\ \A j \in DOMAIN res :
         res[k].total_bits * res[j].original <= res[j].total_bits * res[k].original
    /\ \A j \in DOMAIN res :
         j < k => res[j].total_bits * res[k].original
                    > res[k].total_bits * res[j].original

\* lines 97-121 (the entropy floats are printed only)
AC_Start ==
  /\ script = "analyze_and_compress" /\ pc = "start"
  /\ LET ts == to_transitions(flips)
     IN /\ transitions' = ts
        /\ IF Len(ts) = 0
           THEN /\ error' = "ZeroDivisionError" /\ pc' = "raised"
                /\ UNCHANGED <<loc, results>>
           ELSE /\ loc' = [n |-> Len(flips), t_len |-> Len(ts),
                           ones |-> SumSeq(ts), zeros |-> Len(ts) - SumSeq(ts),
                           alt_rate |-> Ratio(SumSeq(ts), Len(ts)), best |-> 0]
                /\ results' = EmptyDict
                /\ pc' = "1-gram"
                /\ UNCHANGED error
  /\ UNCHANGED <<script, flips, runs, BuildVars>>

\* one iteration of: for ngram_size in [1, 2, 3, 4], lines 124-185
NgramResult(ts, ngram_size, n) ==
  LET ngrams == get_ngrams(ts, ngram_size)
      freq == Counter(ngrams)
      total == FreqTotal(freq)
      cs == get_huffman_codes(build_huffman_tree(freq), <<>>, EmptyDict)
      encoded_bits == Len(huffman_encode(ngrams, cs))
      remainder == Len(ts) % ngram_size
      remainder_bits == remainder
      total_bits == 1 + encoded_bits + remainder_bits
      original_bits == n
  IN [encoded_bits |-> encoded_bits, total_bits |-> total_bits,
      original |-> original_bits,
      ratio |-> Ratio(total_bits, original_bits),
      savings |-> Savings(total_bits, original_bits),
      avg_code_len |-> Ratio(CodeLenByFreq(freq, cs), total),
      entropy |-> FNeg(EntropySum(freq, total, FZero)),
      codes |-> cs, freq |-> freq, ngrams |-> ngrams]

\* the iteration as a step of the script: if not ngrams: continue
NgramStep(ngram_size, this_pc, next_pc) ==
  /\ script = "analyze_and_compress" /\ pc = this_pc
  /\ IF get_ngrams(transitions, ngram_size) = <<>>
     THEN UNCHANGED results
     ELSE results' = DictSet(results, ngram_size,
                             NgramResult(transitions, ngram_size, loc.n))
  /\ pc' = next_pc
  /\ UNCHANGED <<script, error, flips, transitions, runs, loc, BuildVars>>

AC_1gram == NgramStep(1, "1-gram", "2-gram")

AC_2gram == NgramStep(2, "2-gram", "3-gram")

AC_3gram == NgramStep(3, "3-gram", "4-gram")

AC_4gram == NgramStep(4, "4-gram", "summary")

\* lines 188-205: the summary and the best n-gram size
AC_Summary ==
  /\ script = "analyze_and_compress" /\ pc = "summary"
  /\ loc' = [loc EXCEPT !.best = BestNgram(results)]
  /\ pc' = "done"
  /\ UNCHANGED <<script, error, flips, transitions, runs, results, BuildVars>>

Next ==
  \/ AS_Start
  \/ AS_Separate
  \/ AS_Paired
  \/ AS_Triple
  \/ AS_Quad
  \/ AS_Quint
  \/ AS_Sext
  \/ AnalyzeCompression
  \/ CompressSequence
  \/ AC_Start
  \/ AC_1gram
  \/ AC_2gram
  \/ AC_3gram
  \/ AC_4gram
  \/ AC_Summary

Spec == Init /\ [][Next]_vars

\* the three scripts that compute an entropy, on longer flip strings: those
\* that open with a streak of five heads
EntropyPrefix == <<"H", "H", "H", "H", "H">>

EntropyFlips ==
  {EntropyPrefix \o s : s \in SeqsUpTo({"H", "T"}, MaxEntropyTail)}

InitEntropy ==
  /\ script \in {"analyze_and_compress", "analyze_compression",
                  "compress_sequence"}
  /\ pc = "start"
  /\ error = "none"
  /\ flips \in EntropyFlips
  /\ freq_dict = <<>> /\ heap = <<>> /\ merges = 0 /\ tree = NoneNode
  /\ codes = EmptyDict /\ symbols = <<>> /\ encoded = <<>>
  /\ transitions = <<>> /\ runs = <<>>
  /\ loc = NoLoc /\ results = EmptyDict

NextEntropy ==
  \/ AnalyzeCompression
  \/ CompressSequence
  \/ AC_Start
  \/ AC_1gram
  \/ AC_2gram
  \/ AC_3gram
  \/ AC_4gram
  \/ AC_Summary

SpecEntropy == InitEntropy /\ [][NextEntropy]_vars

(***************************************************************************)
(* advanced_compression.main on two flip strings: random_flips (the        *)
(* reference) and user_flips (the candidate), as load_flips returns them.  *)
(* The locals of main are the fields of loc.                               *)
(***************************************************************************)
\* best_method = None, written as a name that no method has
NoMethod == "None"

\* (1 - res[method]['ratio']) for the ratio bits / n of analyze_sequence
SavingsFraction(res, method) ==
  FSub(FFromInt(1), FDiv(res[method].ratio.num, res[method].ratio.den))

\* (1 - res[method]['ratio']) * 100
SavingsPercent(res, method) == FMulInt(SavingsFraction(res, method), 100)

\* mutation: the operands swapped (r_savings - h_savings)
Advantage_swapped(r, h, method) ==
  FSub(SavingsPercent(r, method), SavingsPercent(h, method))

\* advantage = h_savings - r_savings, lines 253-255 and 270-272
Advantage(r, h, method) ==
  FSub(SavingsPercent(h, method), SavingsPercent(r, method))

\* the advantages of methods i.. as a dict
RECURSIVE AdvantagesFrom(_, _, _)
AdvantagesFrom(r, h, i) ==
  IF i > Len(Methods) THEN EmptyDict
  ELSE DictSet(AdvantagesFrom(r, h, i + 1), Methods[i],
               Advantage(r, h, Methods[i]))

\* mutation: the comparison written >=, so that a later method wins a tie
RECURSIVE FindOptimal_lasttie(_, _, _, _, _)
FindOptimal_lasttie(r, h, i, best_method, best_advantage) ==
  IF i > Len(Methods)
  THEN [best_method |-> best_method, best_advantage |-> best_advantage]
  ELSE LET advantage == Advantage(r, h, Methods[i])
       IN IF FGe(advantage, best_advantage)
          THEN FindOptimal_lasttie(r, h, i + 1, Methods[i], advantage)
          ELSE FindOptimal_lasttie(r, h, i + 1, best_method, best_advantage)

\* the loop of lines 266-275 from methods[i-1] on
RECURSIVE FindOptimal(_, _, _, _, _)
FindOptimal(r, h, i, best_method, best_advantage) ==
  IF i > Len(Methods)
  THEN [best_method |-> best_method, best_advantage |-> best_advantage]
  ELSE LET advantage == Advantage(r, h, Methods[i])
       IN IF FGt(advantage, best_advantage)
          THEN FindOptimal(r, h, i + 1, Methods[i], advantage)
          ELSE FindOptimal(r, h, i + 1, best_method, best_advantage)

\* the loop of lines 291-297: the first method with h_savings >= target
RECURSIVE FirstAtTarget(_, _)
FirstAtTarget(h, i) ==
  IF i > Len(Methods) THEN NoMethod
  ELSE IF FGe(SavingsFraction(h, Methods[i]), FDiv(1, 10)) THEN Methods[i]
  ELSE FirstAtTarget(h, i + 1)

\* max(methods, key=lambda m: 1 - human_results[m]['ratio']): the first
\* method whose key no other exceeds
RECURSIVE MaxSavings(_, _, _)
MaxSavings(h, i, best) ==
  IF i > Len(Methods) THEN best
  ELSE IF FGt(SavingsFraction(h, Methods[i]), SavingsFraction(h, best))
  THEN MaxSavings(h, i + 1, Methods[i])
  ELSE MaxSavings(h, i + 1, best)

\* len(set(xs))
Distinct(xs) == Cardinality({xs[i] : i \in 1..Len(xs)})

\* mutation: the special case of 'separate' forgotten (h.get('unique', 0))
NetOf_nosep(h, method) ==
  LET unique == IF method = "separate" THEN 0 ELSE h[method].unique
      overhead == unique * 7
      total_bits == h[method].bits + overhead
  IN [unique |-> unique, overhead |-> overhead, total_bits |-> total_bits,
      net_savings |-> FMulInt(FSub(FFromInt(1), FDiv(total_bits, h.n)), 100)]

\* one iteration of the loop of lines 311-321
NetOf(h, method) ==
  LET unique == IF method = "separate"
                THEN Distinct(h.runs_1) + Distinct(h.runs_0)
                ELSE h[method].unique
      overhead == unique * 7
      total_bits == h[method].bits + overhead
  IN [unique |-> unique, overhead |-> overhead, total_bits |-> total_bits,
      net_savings |-> FMulInt(FSub(FFromInt(1), FDiv(total_bits, h.n)), 100)]

RECURSIVE NetFrom(_, _)
NetFrom(h, i) ==
  IF i > Len(Methods) THEN EmptyDict
  ELSE DictSet(NetFrom(h, i + 1), Methods[i], NetOf(h, Methods[i]))

\* the two data files: random_file.exists() and what load_flips returns of
\* it; user_file.exists(), 'REPLACE' in user_content ("placeholder") and
\* what load_flips returns of it. The flips of a file that is not loaded
\* are None, held as the empty string (both are false in 'not x')
MainInputs(randoms, users) ==
  {[random_file |-> rf, random_flips |-> r, user_file |-> uf, user_flips |-> u] :
     rf \in {"absent", "exists"}, r \in randoms \cup {<<>>},
     uf \in {"absent", "placeholder", "exists"}, u \in users \cup {<<>>}}

MainFiles(randoms, users) ==
  {f \in MainInputs(randoms, users) :
     /\ f.random_file = "absent" => f.random_flips = <<>>
     /\ f.user_file # "exists" => f.user_flips = <<>>}

MainLocals(files) ==
  [random_file |-> files.random_file, user_file |-> files.user_file,
   random_flips |-> files.random_flips, user_flips |-> files.user_flips,
   random_results |-> EmptyDict, human_results |-> EmptyDict,
   advantage |-> EmptyDict,
   best_method |-> NoMethod, best_advantage |-> FZero,
   target_method |-> NoMethod, best_h |-> NoMethod,
   net |-> EmptyDict]

InitMain ==
  /\ script = "main"
  /\ pc = "start"
  /\ error = "none"
  /\ freq_dict = <<>> /\ heap = <<>> /\ merges = 0 /\ tree = NoneNode
  /\ codes = EmptyDict /\ symbols = <<>> /\ encoded = <<>>
  /\ flips = <<>> /\ transitions = <<>> /\ runs = <<>>
  /\ results = EmptyDict
  /\ \E files \in MainFiles(SeqsUpTo({"H", "T"}, MaxRandomFlips),
                             SeqsUpTo({"H", "T"}, MaxUserFlips)) :
       loc = MainLocals(files)

MainRest == <<script, flips, transitions, runs, results, BuildVars>>

\* lines 223-224 with the two returned values: an exception of the first
\* call leaves main before the second call
Main_Analyze(r, h) ==
  IF r.error # "none"
  THEN error' = r.error /\ pc' = "raised" /\ UNCHANGED loc
  ELSE IF h.error # "none"
  THEN /\ error' = h.error /\ pc' = "raised"
       /\ loc' = [loc EXCEPT !.random_results = r.results]
  ELSE /\ loc' = [loc EXCEPT !.random_results = r.results,
                             !.human_results = h.results]
       /\ pc' = "stats"
       /\ UNCHANGED error

\* lines 215-224: the two loads, the early return, and the two calls of
\* analyze_sequence. user_content is "" when the user file is absent, so
\* that load_flips(user_file) is called and open() raises
Main_Load ==
  /\ script = "main" /\ pc = "start"
  /\ IF loc.user_file = "absent"
     THEN error' = "FileNotFoundError" /\ pc' = "raised" /\ UNCHANGED loc
     ELSE IF loc.random_flips = <<>> \/ loc.user_flips = <<>>
     THEN pc' = "returned" /\ UNCHANGED <<loc, error>>
     ELSE Main_Analyze(analyze_sequence(loc.random_flips),
                       analyze_sequence(loc.user_flips))
  /\ UNCHANGED MainRest

\* lines 227-239: the statistics table takes max() of the four run lists
Main_Stats ==
  /\ script = "main" /\ pc = "stats"
  /\ IF \/ loc.random_results.runs_1 = <<>> \/ loc.human_results.runs_1 = <<>>
        \/ loc.random_results.runs_0 = <<>> \/ loc.human_results.runs_0 = <<>>
     THEN error' = "ValueError" /\ pc' = "raised"
     ELSE pc' = "compare" /\ UNCHANGED error
  /\ UNCHANGED <<loc, MainRest>>

\* lines 241-262: the comparison table
Main_Compare ==
  /\ script = "main" /\ pc = "compare"
  /\ loc' = [loc EXCEPT !.advantage =
               AdvantagesFrom(loc.random_results, loc.human_results, 1)]
  /\ pc' = "optimal"
  /\ UNCHANGED <<error, MainRest>>

\* lines 264-275: find optimal
Main_FindOptimal ==
  /\ script = "main" /\ pc = "optimal"
  /\ LET best == FindOptimal(loc.random_results, loc.human_results, 1,
                             NoMethod, FZero)
     IN loc' = [loc EXCEPT !.best_method = best.best_method,
                           !.best_advantage = best.best_advantage]
  /\ pc' = "analysis"
  /\ UNCHANGED <<error, MainRest>>

\* lines 277-287: h_best = human_results[best_method]
Main_Analysis ==
  /\ script = "main" /\ pc = "analysis"
  /\ IF loc.best_method = NoMethod
     THEN error' = "KeyError" /\ pc' = "raised"
     ELSE pc' = "target" /\ UNCHANGED error
  /\ UNCHANGED <<loc, MainRest>>

\* lines 289-300: the first method at the 10% target, else the best one
Main_Target ==
  /\ script = "main" /\ pc = "target"
  /\ LET first == FirstAtTarget(loc.human_results, 1)
     IN loc' = [loc EXCEPT
                  !.target_method = first,
                  !.best_h = IF first = NoMethod
                             THEN MaxSavings(loc.human_results, 2, Methods[1])
                             ELSE NoMethod]
  /\ pc' = "overhead"
  /\ UNCHANGED <<error, MainRest>>

\* lines 302-321: the table with the estimated overhead
Main_Overhead ==
  /\ script = "main" /\ pc = "overhead"
  /\ loc' = [loc EXCEPT !.net = NetFrom(loc.human_results, 1)]
  /\ pc' = "done"
  /\ UNCHANGED <<error, MainRest>>

NextMain ==
  \/ Main_Load
  \/ Main_Stats
  \/ Main_Compare
  \/ Main_FindOptimal
  \/ Main_Analysis
  \/ Main_Target
  \/ Main_Overhead

SpecMain == InitMain /\ [][NextMain]_vars

\* main on longer candidates, the reference file fixed: HHT is the shortest
\* kind of reference that has a 1-run and a 0-run, which the statistics
\* table of lines 235-236 needs
TargetReferences == {<<"H", "H", "T">>}

InitTarget ==
  /\ script = "main"
  /\ pc = "start"
  /\ error = "none"
  /\ freq_dict = <<>> /\ heap = <<>> /\ merges = 0 /\ tree = NoneNode
  /\ codes = EmptyDict /\ symbols = <<>> /\ encoded = <<>>
  /\ flips = <<>> /\ transitions = <<>> /\ runs = <<>>
  /\ results = EmptyDict
  /\ \E files \in MainFiles(TargetReferences,
                             SeqsUpTo({"H", "T"}, MaxTargetFlips)) :
       loc = MainLocals(files)

SpecTarget == InitTarget /\ [][NextMain]_vars

(***************************************************************************)
(* Properties.                                                             *)
(***************************************************************************)
\* the build harness has a code table
CodesBuilt == pc \in {"codes", "done"} \/ error = "KeyError"

PrefixFree(cs) ==
  \A a, b \in DOMAIN cs : a # b => ~IsPrefix(cs[a], cs[b])

\* C1: the code table built from a frequency table with at least two
\* symbols is prefix-free: no codeword is a prefix of the codeword of
\* another symbol (so the codewords are distinct and non-empty).
C1_PrefixFree ==
  (CodesBuilt /\ Len(freq_dict) >= 2) =>
    /\ PrefixFree(codes)
    /\ \A a \in DOMAIN codes : codes[a] # <<>>

C1_Witness ==
  /\ script = "build_huffman_codes" /\ pc = "codes"
  /\ Len(freq_dict) = 4
  /\ \E a, b \in DOMAIN codes : Len(codes[a]) < Len(codes[b])

\* symbol lists over the alphabet of a code table
MessagesOver(cs) ==
  {m \in Messages : \A i \in 1..Len(m) : m[i] \in DOMAIN cs}

\* C2: decoding the bit string of huffman_encode(S, codes) by the tree walk
\* gives S back, and no other symbol list over the alphabet encodes to the
\* same bit string.
C2_RoundTrip ==
  (script = "build_huffman_tree" /\ pc = "done") =>
    /\ huffman_decode(tree, encoded) = [error |-> "none", symbols |-> symbols]
    /\ \A m \in MessagesOver(codes) :
         huffman_encode(m, codes) = encoded => m = symbols

C2_Witness ==
  /\ script = "build_huffman_tree" /\ pc = "done"
  /\ Len(freq_dict) >= 3
  /\ Len(symbols) = 2 /\ symbols[1] # symbols[2]
  /\ Len(codes[symbols[1]]) # Len(codes[symbols[2]])

RECURSIVE Expand(_)
Expand(rs) ==
  IF rs = <<>> THEN <<>>
  ELSE Repeat(Head(rs)[1], Head(rs)[2]) \o Expand(Tail(rs))

\* the stream the run list of the current script was made from
\* (analyze_and_compress makes no run list)
SegmentedStream ==
  IF script = "compress_sequence"
  THEN IF pc = "done" THEN results.error_stream ELSE <<>>
  ELSE IF script = "analyze_and_compress" THEN <<>>
  ELSE transitions

\* C3: expanding the run list (value repeated length times, in order) gives
\* the segmented stream back, and the run lengths add up to its length; for
\* the empty stream the run list is empty.
C3_RunReconstruction ==
  pc # "start" =>
    /\ Expand(runs) = SegmentedStream
    /\ SumSeq(AllLengths(runs)) = Len(SegmentedStream)

C3_Witness ==
  /\ script = "analyze_sequence" /\ pc = "done"
  /\ Len(runs) >= 3
  /\ \E i \in 1..Len(runs) : runs[i][2] >= 2

\* C4: every run has length >= 1, adjacent runs differ in value, and the
\* value of run i is that of run 0 when i is even and the other one when
\* i is odd.
C4_MaximalRuns ==
  pc # "start" =>
    \A i \in 1..Len(runs) :
      /\ runs[i][2] >= 1
      /\ i < Len(runs) => runs[i][1] # runs[i + 1][1]
      /\ runs[i][1] = IF (i - 1) % 2 = 0 THEN runs[1][1] ELSE 1 - runs[1][1]

C4_Witness ==
  /\ script = "compress_sequence" /\ pc = "done"
  /\ Len(runs) >= 4
  /\ \E i \in 1..Len(runs) : runs[i][2] >= 3

\* C5: the transition stream of n flips has n-1 elements when n >= 2 and
\* none when n <= 1; element i-1 is 1 exactly when flip i differs from
\* flip i-1, and 0 otherwise.
C5_Transitions ==
  (pc # "start" /\ error # "IndexError") =>
    /\ Len(transitions) = IF Len(flips) >= 2 THEN Len(flips) - 1 ELSE 0
    /\ \A i \in 1..(Len(flips) - 1) :
         transitions[i] = IF flips[i + 1] # flips[i] THEN 1 ELSE 0

C5_Witness ==
  /\ script = "analyze_compression" /\ pc = "done"
  /\ Len(flips) >= 4
  /\ \E i, j \in 1..Len(transitions) :
       transitions[i] = 1 /\ transitions[j] = 0

\* the lengths of the leftover of the paired method
PairLeftoverLengths ==
  IF loc.leftover # None THEN <<loc.leftover[2]>> ELSE <<>>

\* the tuples and the leftover runs of the grouping step just finished
JustGrouped ==
  CASE pc = "triple"  -> [k |-> 2, tuples |-> loc.pairs,
                          leftover |-> IF loc.leftover # None
                                       THEN <<loc.leftover>> ELSE <<>>,
                          tcodes |-> loc.pair_codes, method |-> "paired"]
    [] pc = "quad"    -> [k |-> 3, tuples |-> loc.triples,
                          leftover |-> loc.leftover_runs,
                          tcodes |-> loc.triple_codes, method |-> "triple"]
    [] pc = "5-tuple" -> [k |-> 4, tuples |-> loc.quads,
                          leftover |-> loc.leftover_runs,
                          tcodes |-> loc.quad_codes, method |-> "quad"]
    [] pc = "6-tuple" -> [k |-> 5, tuples |-> loc.quintuples,
                          leftover |-> loc.leftover_runs,
                          tcodes |-> loc.quint_codes, method |-> "5-tuple"]
    [] pc = "done"    -> [k |-> 6, tuples |-> loc.sextuples,
                          leftover |-> loc.leftover_runs,
                          tcodes |-> loc.sext_codes, method |-> "6-tuple"]

GroupingDone ==
  script = "analyze_sequence"
  /\ pc \in {"triple", "quad", "5-tuple", "6-tuple", "done"}

\* C6: for each group size k in 2..6, the elements of the k-tuples in
\* order followed by the lengths of the leftover runs are the run lengths
\* of the run list, in order.
C6_GroupingLossless ==
  GroupingDone =>
    /\ Concat(JustGrouped.tuples) \o AllLengths(JustGrouped.leftover)
         = AllLengths(runs)
    /\ Concat(loc.pairs) \o PairLeftoverLengths = AllLengths(runs)
    /\ \A i \in 1..Len(JustGrouped.tuples) :
         Len(JustGrouped.tuples[i]) = JustGrouped.k

C6_Witness ==
  /\ script = "analyze_sequence" /\ pc = "done"
  /\ Len(runs) >= 7
  /\ Len(loc.sextuples) = 1 /\ Len(loc.pairs) >= 3
  /\ loc.leftover_runs # <<>>

\* the per-value table of a run's value
TableOf(run) == IF run[1] = 1 THEN loc.codes_1 ELSE loc.codes_0

\* the codeword lengths of runs i.. of rs, each in the table of its value
RECURSIVE OwnTableBits(_, _)
OwnTableBits(rs, i) ==
  IF i > Len(rs) THEN 0
  ELSE Len(TableOf(rs[i])[rs[i][2]]) + OwnTableBits(rs, i + 1)

\* C7: for count runs and group size k in 2..6 there are count div k tuples
\* and count mod k leftover runs; the leftover runs are the last runs of
\* the run list with their values, and the bit count of the method is 2
\* plus the tuple codewords plus, for each leftover run, its codeword in
\* the table of its own value.
C7_GroupCounts ==
  GroupingDone =>
    LET g == JustGrouped
        count == Len(runs)
        r == count % g.k
    IN /\ Len(g.tuples) = count \div g.k
       /\ Len(g.leftover) = r
       /\ r < g.k
       /\ \A j \in 1..r : g.leftover[j] = runs[count - r + j]
       /\ results[g.method].bits =
            2 + TableBits(g.tuples, g.tcodes)
              + OwnTableBits(runs, count - r + 1)

C7_Witness ==
  /\ script = "analyze_sequence" /\ pc = "done"
  /\ Len(runs) >= 8
  /\ Len(loc.leftover_runs) = 2
  /\ loc.leftover_runs[1][2] # loc.leftover_runs[2][2]

\* C8: a frequency table with one symbol is built without raising, by every
\* build, and the table maps that symbol to the 1-bit code "0".
C8_SingleSymbol ==
  Len(freq_dict) = 1 =>
    /\ error # "AttributeError"
    /\ pc = "raised" => error = "KeyError"
    /\ CodesBuilt => /\ DOMAIN codes = {freq_dict[1].sym}
                      /\ codes[freq_dict[1].sym] = <<"0">>

C8_Witness ==
  /\ script = "build_huffman_tree" /\ pc = "codes"
  /\ Len(freq_dict) = 1
  /\ tree.kind = "leaf"

RECURSIVE Pow2(_)
Pow2(k) == IF k = 0 THEN 1 ELSE 2 * Pow2(k - 1)

\* sum of 2^(MaxCodeLen - ls[i])
RECURSIVE KraftSum(_)
KraftSum(ls) ==
  IF ls = <<>> THEN 0 ELSE Pow2(MaxCodeLen - Head(ls)) + KraftSum(Tail(ls))

\* The codeword lengths (1..MaxCodeLen bits) that a prefix-free binary code
\* for 2..MaxSyms symbols can have: by the Kraft inequality the lengths of
\* every prefix-free code satisfy sum(2^-len) <= 1, and every such list of
\* lengths is that of some prefix-free code.
PrefixFreeLengths ==
  UNION {{ls \in [1..m -> 1..MaxCodeLen] : KraftSum(ls) <= Pow2(MaxCodeLen)} :
         m \in 2..MaxSyms}

\* sum(count[s] * len(code[s])) of the built table
RECURSIVE WeightedLength(_, _)
WeightedLength(fd, cs) ==
  IF fd = <<>> THEN 0
  ELSE Head(fd).freq * Len(cs[Head(fd).sym]) + WeightedLength(Tail(fd), cs)

\* the same sum for the i-th symbol of the table getting a code of ls[i] bits
RECURSIVE WeightedLengthOf(_, _)
WeightedLengthOf(fd, ls) ==
  IF fd = <<>> THEN 0
  ELSE Head(fd).freq * Head(ls) + WeightedLengthOf(Tail(fd), Tail(ls))

\* C9: the total weighted code length of the built table is at most that of
\* every prefix-free binary code over the same symbols (codewords of up to
\* MaxCodeLen bits).
C9_Optimal ==
  (pc = "codes" /\ Len(freq_dict) >= 2) =>
    \A ls \in PrefixFreeLengths :
      Len(ls) = Len(freq_dict) =>
        WeightedLength(freq_dict, codes) <= WeightedLengthOf(freq_dict, ls)

C9_Witness ==
  /\ script = "rl_build_huffman_codes" /\ pc = "codes"
  /\ Len(freq_dict) = 4
  /\ \E a \in DOMAIN codes : Len(codes[a]) = 3
  /\ \E ls \in PrefixFreeLengths :
       /\ Len(ls) = 4
       /\ WeightedLength(freq_dict, codes) < WeightedLengthOf(freq_dict, ls)

\* the transition stream is a single run
SingleRun == Len(runs) = 1

\* C10: when the transition stream is a single run, per-run Huffman coding
\* gives that run the code "0" and a total of 3 bits, in analyze_compression
\* and in the separate method of analyze_sequence; for 4 flips the ratio is
\* 3/4 and the savings 25%.
C10_SingleRun ==
  /\ (script = "analyze_compression" /\ pc # "start" /\ SingleRun) =>
       /\ pc = "done"
       /\ results.run_codes[runs[1][2]] = <<"0">>
       /\ results.encoded = 3
       /\ Len(flips) = 4 =>
            /\ RatEq(results.ratio, Ratio(3, 4))
            /\ results.savings = FFromInt(25)
  /\ (script = "analyze_sequence" /\ SingleRun
        /\ pc \notin {"start", "raised", "separate"}) =>
       /\ TableOf(runs[1])[runs[1][2]] = <<"0">>
       /\ results["separate"].bits = 3
       /\ Len(flips) = 4 =>
            /\ RatEq(results["separate"].ratio, Ratio(3, 4))
            /\ Savings(results["separate"].bits, results.n) = FFromInt(25)

C10_Witness ==
  /\ script = "analyze_compression" /\ pc = "done"
  /\ flips = <<"H", "T", "H", "T">>
  /\ runs = <<<<1, 3>>>>
  /\ results.encoded = 3

(***************************************************************************)
(* C11: complemented transition streams.                                   *)
(***************************************************************************)
OtherFlip(c) == IF c = "H" THEN "T" ELSE "H"

\* the transition stream complemented element by element
RECURSIVE ComplementStream(_)
ComplementStream(ts) ==
  IF ts = <<>> THEN <<>>
  ELSE <<1 - Head(ts)>> \o ComplementStream(Tail(ts))

\* the flip string that starts with flip c and has transition stream ts
RECURSIVE FlipsWith(_, _)
FlipsWith(c, ts) ==
  IF ts = <<>> THEN <<c>>
  ELSE <<c>> \o FlipsWith(IF Head(ts) = 1 THEN OtherFlip(c) ELSE c, Tail(ts))

\* the flip string of the same length and first flip whose transition
\* stream is the complement of that of fl
ComplementFlips(fl) ==
  IF fl = <<>> THEN <<>>
  ELSE FlipsWith(fl[1], ComplementStream(TransitionsFrom(fl, 1)))

Finished == pc \in {"done", "raised"}

\* C11: a finished script reports, for every strategy, the bit count that the
\* same script reports on the flip string of the same length whose
\* transition stream is the element-wise complement (and raises when that
\* one raises).
C11_ComplementSymmetry ==
  LET other == ComplementFlips(flips)
  IN /\ script = "analyze_sequence" /\ Finished =>
          LET o == analyze_sequence(other)
          IN /\ o.error = error
             /\ error = "none" =>
                  \A i \in 1..Len(Methods) :
                    results[Methods[i]].bits = o.results[Methods[i]].bits
     /\ script = "analyze_compression" /\ Finished =>
          LET o == analyze_compression(other)
          IN /\ o.error = error
             /\ error = "none" => results.encoded = o.results.encoded
     /\ script = "compress_sequence" /\ Finished =>
          LET o == compress_sequence(other, loc.use_golomb, loc.golomb_m)
          IN /\ o.error = error
             /\ error = "none" =>
                  results.compressed_bits = o.results.compressed_bits
     /\ script = "analyze_and_compress" /\ pc = "done" =>
          \A k \in DOMAIN results :
            results[k].total_bits
              = NgramResult(TransitionsFrom(other, 1), k, Len(other)).total_bits

\* a finished analysis of a stream with runs of both values, several
\* lengths and code tables of more than one codeword length
C11_Witness ==
  /\ script = "analyze_sequence" /\ pc = "done"
  /\ ComplementFlips(flips) # flips
  /\ Cardinality({runs[i][2] : i \in 1..Len(runs)}) >= 3
  /\ results["separate"].bits > 2 + Len(runs)

(***************************************************************************)
(* C12: header bits.                                                       *)
(***************************************************************************)
\* the totals of the run-length scripts are 2 plus the lengths of the
\* codewords emitted: per strategy of analyze_sequence, for
\* analyze_compression and for compress_sequence
RunScriptsTwoHeaderBits ==
  /\ script = "analyze_sequence" /\ pc = "paired" =>
       results["separate"].bits = 2 + OwnTableBits(runs, 1)
  /\ GroupingDone =>
       results[JustGrouped.method].bits =
         2 + TableBits(JustGrouped.tuples, JustGrouped.tcodes)
           + OwnTableBits(JustGrouped.leftover, 1)
  /\ script = "analyze_compression" /\ pc = "done" =>
       results.encoded = 2 + TableBits(AllLengths(runs), results.run_codes)
  /\ script = "compress_sequence" /\ pc = "done" =>
       results.compressed_bits = 2 + CodeBits(results.encoded_runs)

\* every n-gram total reported so far is header + codeword lengths +
\* percent * (one bit per transition left over after whole groups of n)
NgramTotals(header, percent) ==
  script = "analyze_and_compress" =>
    \A k \in DOMAIN results :
      results[k].total_bits =
        header + TableBits(results[k].ngrams, results[k].codes)
               + percent * (Len(transitions) % k)

\* C12 as stated: in every script variant and for every strategy the
\* reported total is exactly 2 header bits plus the lengths of the
\* codewords emitted for the data.
C12_Original == RunScriptsTwoHeaderBits /\ NgramTotals(2, 0)

\* C12 amended: analyze_sequence (six strategies), analyze_compression and
\* compress_sequence report 2 header bits plus the codeword lengths;
\* analyze_and_compress reports, per n-gram size, 1 header bit plus the
\* codeword lengths plus one bit per leftover transition (t_len mod n).
C12_HeaderBits == RunScriptsTwoHeaderBits /\ NgramTotals(1, 1)

C12_Witness ==
  /\ script = "analyze_and_compress" /\ pc = "done"
  /\ DOMAIN results = 1..4
  /\ Len(transitions) % 3 = 2
  /\ Cardinality(DOMAIN results[2].codes) >= 3

(***************************************************************************)
(* C13: the shape of a Golomb codeword.                                    *)
(***************************************************************************)
\* ceil(log2 m): the least w with 2^w >= m
CeilingLog2(m) ==
  CHOOSE w \in 0..m : Pow2(w) >= m /\ \A v \in 0..(w - 1) : Pow2(v) < m

\* the number a bit string writes, most significant bit first
RECURSIVE BinValue(_)
BinValue(bs) ==
  IF bs = <<>> THEN 0
  ELSE 2 * BinValue(SubSeq(bs, 1, Len(bs) - 1))
       + (IF bs[Len(bs)] = "1" THEN 1 ELSE 0)

\* code is q ones, one zero, then r in exactly width bits
GolombShape(code, q, r, width) ==
  /\ Len(code) = q + 1 + width
  /\ \A i \in 1..q : code[i] = "1"
  /\ code[q + 1] = "0"
  /\ BinValue(SubSeq(code, q + 2, Len(code))) = r

GolombRun == script = "compress_sequence" /\ pc = "done" /\ loc.use_golomb

\* every Golomb codeword of the finished run has the shape, the width of
\* the remainder field at m = 1 being widthAtOne
GolombCodewords(widthAtOne) ==
  GolombRun =>
    \A i \in 1..Len(results.encoded_runs) :
      LET l == results.encoded_runs[i][2]
          m == loc.golomb_m
          w == IF m = 1 THEN widthAtOne ELSE CeilingLog2(m)
      IN GolombShape(results.encoded_runs[i][3],
                     (l - 1) \div m, (l - 1) % m, w)

\* C13 as stated: the codeword is q ones, one zero and r in exactly
\* ceil(log2 m) bits, q = (l-1) div m, r = (l-1) mod m, of length
\* q + 1 + ceil(log2 m), the remainder field having width 0 at m = 1.
C13_Original == GolombCodewords(0)

\* C13 amended: the same for m >= 2; at m = 1 the remainder field is one
\* "0" bit, so the codeword has length q + 2.
C13_GolombShape == GolombCodewords(1)

C13_Witness ==
  /\ GolombRun /\ loc.golomb_m = 3
  /\ \E i \in 1..Len(results.encoded_runs) :
       /\ results.encoded_runs[i][2] >= 6
       /\ Len(results.encoded_runs[i][3]) = 4

(***************************************************************************)
(* C14: decoding a Golomb codeword.  The repository has no decoder; the    *)
(* one of the specification (4.7) reads the codeword as: count ones until  *)
(* a zero, read the remainder in ceil(log2 m) bits, l = q*m + r + 1.       *)
(***************************************************************************)
RECURSIVE LeadingOnes(_)
LeadingOnes(bs) ==
  IF bs = <<>> \/ Head(bs) # "1" THEN 0 ELSE 1 + LeadingOnes(Tail(bs))

golomb_decode(code, m) ==
  LET q == LeadingOnes(code)
      w == CeilingLog2(m)
  IN IF Len(code) < q + 1 + w
     THEN [error |-> "MalformedStreamError", length |-> 0, rest |-> <<>>]
     ELSE [error |-> "none",
           length |-> q * m + BinValue(SubSeq(code, q + 2, q + 1 + w)) + 1,
           rest |-> SubSeq(code, q + 2 + w, Len(code))]

\* C14: for the divisor of the finished run, decoding the codeword of each
\* run gives its run length back, and the codeword of any other run length
\* up to MaxFlips is a different bit string, neither a prefix of the other.
C14_GolombDecode ==
  GolombRun =>
    \A i \in 1..Len(results.encoded_runs) :
      LET l == results.encoded_runs[i][2]
          code == results.encoded_runs[i][3]
          m == loc.golomb_m
      IN /\ golomb_decode(code, m).error = "none"
         /\ golomb_decode(code, m).length = l
         /\ \A l2 \in (1..MaxFlips) \ {l} :
              LET other == encode_run_length_golomb(l2, m)
              IN /\ other # code
                 /\ ~IsPrefix(other, code)
                 /\ ~IsPrefix(code, other)

C14_Witness ==
  /\ GolombRun /\ loc.golomb_m = 3
  /\ \E i, j \in 1..Len(results.encoded_runs) :
       /\ results.encoded_runs[i][2] = 5
       /\ results.encoded_runs[j][2] = 3

(***************************************************************************)
(* C15: a flip string of length 1.                                         *)
(***************************************************************************)
\* C15: on a flip string of length 1 (empty transition stream) every script
\* finishes without raising and reports no encoded run or symbol codeword.
C15_LengthOne ==
  Len(flips) = 1 /\ Finished =>
    /\ error = "none"
    /\ pc = "done"
    /\ script = "compress_sequence" => results.encoded_runs = <<>>
    /\ script = "analyze_compression" => results.runs = <<>>
    /\ script = "analyze_sequence" => results.num_runs = 0
    /\ script = "analyze_and_compress" => DOMAIN results = {}

(***************************************************************************)
(* C16: encoding a symbol that has no codeword.                            *)
(***************************************************************************)
\* huffman_encode has been called on a list holding a symbol that is not a
\* key of the code table
EncodedUnknownSymbol ==
  /\ script = "build_huffman_tree" /\ pc \in {"done", "raised"}
  /\ \E i \in 1..Len(symbols) : symbols[i] \notin DOMAIN codes

\* C16: encoding a symbol list that holds a symbol absent from the code
\* table fails with AlphabetError and yields no partial bit string.
C16_UnknownSymbol ==
  EncodedUnknownSymbol =>
    pc = "raised" /\ error = "AlphabetError" /\ encoded = <<>>

(***************************************************************************)
(* C17: a frequency table with no symbol.                                  *)
(***************************************************************************)
\* the build called on the table has returned or raised
BuildReturned == pc \in {"tree", "codes", "done", "raised"}

\* C17: building a Huffman code from a frequency table with zero distinct
\* symbols fails with AlphabetError; no empty code table and no other
\* placeholder value is returned.
C17_EmptyTable ==
  freq_dict = <<>> /\ BuildReturned =>
    /\ pc = "raised" /\ error = "AlphabetError"
    /\ codes # EmptyDict \/ pc # "codes"
    /\ tree # NoneNode \/ pc # "tree"

(***************************************************************************)
(* C19: the advantage of the candidate over the reference.                 *)
(***************************************************************************)
\* main has printed the comparison table
Compared == script = "main" /\ loc.advantage # EmptyDict

\* the float x is the rational num / den up to float rounding: x * den and
\* num differ by less than 2^-30
NearRational(x, num, den) ==
  LET err == FSub(FMulInt(x, den), FFromInt(num))
  IN err.sign = 0 \/ err.exp + 53 <= -30

\* C19: for each of the six strategies the advantage is the savings percent
\* of the candidate minus that of the reference, 100 * (1 - bits_h / n_h) -
\* 100 * (1 - bits_r / n_r), up to float rounding and with its exact sign;
\* a stream compared with itself gets advantage exactly 0 for every
\* strategy.
C19_Advantage ==
  Compared =>
    \A i \in 1..Len(Methods) :
      LET a == loc.advantage[Methods[i]]
          r == loc.random_results[Methods[i]]
          h == loc.human_results[Methods[i]]
          n_r == loc.random_results.n
          n_h == loc.human_results.n
          diff == r.bits * n_h - h.bits * n_r
      IN /\ NearRational(a, 100 * diff, n_r * n_h)
         /\ a.sign = (IF diff > 0 THEN 1 ELSE IF diff < 0 THEN -1 ELSE 0)
         /\ loc.random_flips = loc.user_flips => a = FZero

\* a stream with runs of both kinds compared with itself
C19_Witness ==
  /\ Compared
  /\ loc.random_flips = loc.user_flips
  /\ Len(loc.user_flips) = MaxRandomFlips

(***************************************************************************)
(* C20: the strategy reported as best.                                     *)
(***************************************************************************)
\* main has printed "Best method for detecting human patterns"
BestReported == script = "main" /\ pc \in {"target", "overhead", "done"}

\* C20 as stated: the strategy reported as best has the greatest net
\* savings (savings after adding the table overhead to the bit count) of
\* all the strategies.
C20_Original ==
  script = "main" /\ pc = "done" =>
    \A i \in 1..Len(Methods) :
      ~FGt(loc.net[Methods[i]].net_savings,
           loc.net[loc.best_method].net_savings)

\* C20 amended: the strategy reported as best is the first one, in the
\* order separate, paired, triple, quad, 5-tuple, 6-tuple, whose advantage
\* (candidate savings percent minus reference savings percent, on the data
\* bits without table overhead) is the greatest, and that advantage is
\* strictly positive.
C20_BestAdvantage ==
  BestReported =>
    \E b \in 1..Len(Methods) :
      /\ loc.best_method = Methods[b]
      /\ loc.best_advantage = loc.advantage[Methods[b]]
      /\ loc.best_advantage.sign = 1
      /\ \A i \in 1..Len(Methods) :
           ~FGt(loc.advantage[Methods[i]], loc.best_advantage)
      /\ \A i \in 1..(b - 1) :
           FGt(loc.best_advantage, loc.advantage[Methods[i]])

\* the best reported is not the first strategy, and another strategy has
\* greater net savings
C20_Witness ==
  /\ script = "main" /\ pc = "done"
  /\ loc.best_method # Methods[1]
  /\ \E i \in 1..Len(Methods) :
       FGt(loc.net[Methods[i]].net_savings,
           loc.net[loc.best_method].net_savings)

(***************************************************************************)
(* C21: the threshold report.                                              *)
(***************************************************************************)
\* main has printed the threshold report
TargetReported == script = "main" /\ pc \in {"overhead", "done"}

\* the savings fraction (n - bits) / n of the candidate with Methods[i] is
\* at least the threshold 0.10 = 1/10
MeetsTarget(i) ==
  10 * (loc.human_results.n - loc.human_results[Methods[i]].bits)
    >= loc.human_results.n

\* C21: the threshold report names the first strategy, in the order
\* separate, paired, triple, quad, 5-tuple, 6-tuple, whose candidate savings
\* fraction is at least 0.10, no earlier strategy meeting the threshold; if
\* none meets it, the strategy with the greatest candidate savings is
\* reported instead.
C21_Threshold ==
  TargetReported =>
    IF \E i \in 1..Len(Methods) : MeetsTarget(i)
    THEN \E i \in 1..Len(Methods) :
           /\ loc.target_method = Methods[i]
           /\ MeetsTarget(i)
           /\ \A j \in 1..(i - 1) : ~MeetsTarget(j)
    ELSE /\ loc.target_method = NoMethod
         /\ loc.best_h \in {Methods[i] : i \in 1..Len(Methods)}
         /\ \A i \in 1..Len(Methods) :
              loc.human_results[Methods[i]].bits
                >= loc.human_results[loc.best_h].bits

(***************************************************************************)
(* C22: the table overhead and the net savings.                            *)
(***************************************************************************)
\* the run list of the candidate of main
CandidateRuns == get_runs(to_transitions(loc.user_flips))

\* the number of distinct tuples of k consecutive run lengths, the tuples
\* taken at positions 1, k + 1, 2k + 1, ...
DistinctTuples(rs, k) ==
  Cardinality({SubSeq(AllLengths(rs), (j - 1) * k + 1, j * k) :
                 j \in 1..(Len(rs) \div k)})

\* the distinct-symbol count of Methods[i]
DistinctSymbols(rs, i) ==
  IF i = 1
  THEN Cardinality({rs[j][2] : j \in {x \in 1..Len(rs) : rs[x][1] = 1}})
       + Cardinality({rs[j][2] : j \in {x \in 1..Len(rs) : rs[x][1] = 0}})
  ELSE DistinctTuples(rs, i)

\* C22: for every strategy the table overhead is 7 bits times the
\* strategy's distinct-symbol count (per-run: the distinct 1-run lengths
\* plus the distinct 0-run lengths; grouped at size k: the distinct
\* k-tuples), and the net savings are (1 - (bits + overhead) / n) * 100, up
\* to float rounding and with the exact sign.
C22_Overhead ==
  (script = "main" /\ pc = "done") =>
    \A i \in 1..Len(Methods) :
      LET net == loc.net[Methods[i]]
          n == loc.human_results.n
          bits == loc.human_results[Methods[i]].bits
          overhead == 7 * DistinctSymbols(CandidateRuns, i)
      IN /\ net.overhead = overhead
         /\ NearRational(net.net_savings, 100 * (n - bits - overhead), n)
         /\ net.net_savings.sign
              = (IF n > bits + overhead THEN 1
                 ELSE IF n < bits + overhead THEN -1 ELSE 0)

\* a candidate with three distinct run lengths over the two run kinds and
\* two distinct pairs
C22_Witness ==
  /\ script = "main" /\ pc = "done"
  /\ loc.net["separate"].overhead = 21
  /\ loc.net["paired"].overhead = 14
  /\ loc.net["triple"].overhead = 7

(***************************************************************************)
(* C23: the code tables are complete over their frequency tables.          *)
(***************************************************************************)
\* the elements of a list
Elements(xs) == {xs[j] : j \in 1..Len(xs)}

\* the lengths of the runs of value v in the run list
LengthsWith(v) == {runs[j][2] : j \in {x \in 1..Len(runs) : runs[x][1] = v}}

\* the per-value table has the length of the run
RunKnown(run) ==
  run[2] \in DOMAIN (IF run[1] = 1 THEN loc.codes_1 ELSE loc.codes_0)

\* C23: the code table of each Huffman build has exactly the symbols of its
\* frequency table as keys, so every codeword lookup of analyze_sequence
\* and analyze_compression on a flip string of length >= 2 succeeds: the
\* per-value tables have the lengths of the runs of their value (the
\* leftover runs included), the table of each group size has the tuples of
\* that size, and the table of analyze_compression has every run length.
C23_CompleteTables ==
  /\ Len(flips) >= 2 /\ script \in {"analyze_sequence", "analyze_compression"}
       => error # "KeyError"
  /\ (script = "analyze_sequence" /\ pc \notin {"start", "raised"}) =>
       /\ DOMAIN loc.codes_1 = LengthsWith(1)
       /\ DOMAIN loc.codes_0 = LengthsWith(0)
       /\ \A j \in 1..Len(runs) : RunKnown(runs[j])
  /\ GroupingDone =>
       /\ DOMAIN JustGrouped.tcodes = Elements(JustGrouped.tuples)
       /\ \A j \in 1..Len(JustGrouped.leftover) :
            RunKnown(JustGrouped.leftover[j])
  /\ (script = "analyze_compression" /\ pc = "done") =>
       /\ DOMAIN results.run_codes = LengthsWith(0) \cup LengthsWith(1)
       /\ results.encoded = 2 + TableBits(AllLengths(runs), results.run_codes)

\* analyze_sequence has grouped the runs into triples, two of them
\* different, with two leftover runs
C23_Witness ==
  /\ script = "analyze_sequence" /\ pc = "quad"
  /\ Cardinality(DOMAIN loc.triple_codes) = 2
  /\ Len(loc.leftover_runs) = 2
  /\ Cardinality(DOMAIN loc.codes_1) + Cardinality(DOMAIN loc.codes_0) >= 3

(***************************************************************************)
(* C24: the bounds of the computed entropy.                                *)
(***************************************************************************)
\* math.log2(m) at [m] for 1 <= m <= 16
Log2Int ==
  << FZero,
     [sign |-> 1, mag |-> <<0, 0, 0, 128>>, exp |-> -52],
     [sign |-> 1, mag |-> <<15720, 18239, 28678, 202>>, exp |-> -52],
     [sign |-> 1, mag |-> <<0, 0, 0, 128>>, exp |-> -51],
     [sign |-> 1, mag |-> <<9073, 4851, 19772, 148>>, exp |-> -51],
     [sign |-> 1, mag |-> <<24244, 9119, 14339, 165>>, exp |-> -51],
     [sign |-> 1, mag |-> <<1069, 32424, 21977, 179>>, exp |-> -51],
     [sign |-> 1, mag |-> <<0, 0, 0, 192>>, exp |-> -51],
     [sign |-> 1, mag |-> <<15720, 18239, 28678, 202>>, exp |-> -51],
     [sign |-> 1, mag |-> <<9073, 4851, 19772, 212>>, exp |-> -51],
     [sign |-> 1, mag |-> <<23874, 30732, 13225, 221>>, exp |-> -51],
     [sign |-> 1, mag |-> <<24244, 9119, 14339, 229>>, exp |-> -51],
     [sign |-> 1, mag |-> <<25139, 18211, 27136, 236>>, exp |-> -51],
     [sign |-> 1, mag |-> <<1069, 32424, 21977, 243>>, exp |-> -51],
     [sign |-> 1, mag |-> <<550, 13971, 1343, 250>>, exp |-> -51],
     [sign |-> 1, mag |-> <<0, 0, 0, 128>>, exp |-> -50] >>

\* all the counts of a frequency table are equal
UniformCounts(fd) == \A i, j \in 1..Len(fd) : fd[i].freq = fd[j].freq

\* the float H is within [0, log2(m)], reaches log2(m) only for equal
\* counts, and is 0 for m = 1
EntropyBounded(H, m, uniform) ==
  LET d == FSub(H, Log2Int[m])
  IN /\ H.sign >= 0
     /\ d.sign <= 0
     /\ d.sign = 0 => uniform
     /\ m = 1 => H = FZero

\* C24: for any non-empty frequency table the computed entropy H satisfies
\* 0 <= H <= log2(number of distinct symbols), with H equal to the upper
\* bound only when all counts are equal; a single-symbol table gives H = 0.
C24_EntropyBounds ==
  /\ script = "analyze_and_compress" =>
       \A k \in DOMAIN results :
         EntropyBounded(results[k].entropy, Len(results[k].freq),
                        UniformCounts(results[k].freq))
  /\ (script = "analyze_compression" /\ pc = "done") =>
       LET ones == SumSeq(transitions)
           t_len == Len(transitions)
       IN EntropyBounded(results.entropy,
                         IF 0 < ones /\ ones < t_len THEN 2 ELSE 1,
                         2 * ones = t_len \/ ones = 0 \/ ones = t_len)
  /\ (script = "compress_sequence" /\ pc = "done"
      /\ results.error_stream # <<>>) =>
       LET ones == SumSeq(results.error_stream)
           len == Len(results.error_stream)
       IN EntropyBounded(results.entropy_per_error_bit,
                         IF 0 < ones /\ ones < len THEN 2 ELSE 1,
                         2 * ones = len \/ ones = 0 \/ ones = len)

(***************************************************************************)
(* C25: the entropy of an empty stream.                                    *)
(***************************************************************************)
\* the error stream of compress_sequence on the flips: the stream whose
\* entropy lines 169-175 compute
ErrorStreamOf(fl) == Errors(get_transitions(to_bits(fl)))

\* C25: when the stream for which the entropy is computed is empty, the
\* computation fails explicitly with EmptyInputError; it never substitutes a
\* placeholder probability or entropy value and never returns a result
\* record built from one. (The flips are not empty, so that the entropy of
\* lines 169-175 is reached.)
C25_EmptyInputError ==
  (script = "compress_sequence" /\ pc # "start" /\ flips # <<>>
   /\ ErrorStreamOf(flips) = <<>>) =>
    (pc = "raised" /\ error = "EmptyInputError")

(***************************************************************************)
(* C26: the n-grams and the leftover as a partition of the stream.         *)
(***************************************************************************)
\* the last t mod n symbols of the stream: the leftover that
\* remainder_bits counts (lines 162-164)
NgramLeftover(ts, n) == SubSeq(ts, Len(ts) - (Len(ts) % n) + 1, Len(ts))

\* C26: in the n-gram Huffman strategy (n in 1..4) over a transition stream
\* of length t, the encoded n-grams followed by the counted remainder
\* symbols form a lossless partition of the stream: floor(t/n) n-grams plus
\* t mod n leftover symbols, whose concatenation in order is the stream, and
\* the frequency-table total equals the number of n-grams encoded.
C26_Partition ==
  script = "analyze_and_compress" =>
    \A k \in DOMAIN results :
      /\ Len(results[k].ngrams) = Len(transitions) \div k
      /\ Concat(results[k].ngrams) \o JoinStr(NgramLeftover(transitions, k))
           = JoinStr(transitions)
      /\ FreqTotal(results[k].freq) = Len(results[k].ngrams)

(***************************************************************************)
(* C27: the code table as a function of the symbol-to-count mapping.       *)
(***************************************************************************)
\* the entries of a frequency table in the order p[1], p[2], ...
RECURSIVE ReorderedFrom(_, _, _)
ReorderedFrom(fd, p, i) ==
  IF i > Len(fd) THEN <<>>
  ELSE <<fd[p[i]]>> \o ReorderedFrom(fd, p, i + 1)

\* the frequency tables with the same symbol-to-count mapping as fd: the
\* same entries in every order of first occurrence
Reorderings(fd) ==
  {ReorderedFrom(fd, p, 1) :
     p \in {q \in [1..Len(fd) -> 1..Len(fd)] :
              \A i, j \in 1..Len(fd) : q[i] = q[j] => i = j}}

\* the code table each of the three builds makes of a frequency table
CodeTableOf(build, fd) ==
  CASE build = "build_huffman_tree" ->
         get_huffman_codes(build_huffman_tree(fd), <<>>, EmptyDict)
    [] build = "build_huffman_codes" -> build_huffman_codes(fd)
    [] build = "rl_build_huffman_codes" -> rl_build_huffman_codes(fd)

\* C27: the code table built by the Huffman construction is a function of
\* the symbol-to-count mapping alone: two frequency tables with the same
\* counts but a different order of first occurrence of the symbols get the
\* same code table.
C27_OrderIndependent ==
  pc = "codes" =>
    \A fd \in Reorderings(freq_dict) : CodeTableOf(script, fd) = codes

(***************************************************************************)
(* C28: the merge loop of the Huffman build.                               *)
(***************************************************************************)
\* the number of times the node x is in the heap list
NodeCount(h, x) == Cardinality({k \in 1..Len(h) : h[k] = x})

HeapNodes(h) == {h[k] : k \in 1..Len(h)}

\* h2 is h without two nodes of lowest frequency and with a parent of the
\* two, whose frequency is their sum
RemovesTwoLowest(h, h2) ==
  \E i, j \in 1..Len(h) :
    /\ i # j
    /\ \A k \in (1..Len(h)) \ {i, j} :
         h[k].freq >= h[i].freq /\ h[k].freq >= h[j].freq
    /\ \E parent \in HeapNodes(h2) :
         /\ parent.kind = "internal"
         /\ parent.left = h[i] /\ parent.right = h[j]
         /\ parent.freq = h[i].freq + h[j].freq
         /\ \A x \in HeapNodes(h) \cup HeapNodes(h2) :
              NodeCount(h2, x) = NodeCount(h, x)
                                 - (IF x = h[i] THEN 1 ELSE 0)
                                 - (IF x = h[j] THEN 1 ELSE 0)
                                 + (IF x = parent THEN 1 ELSE 0)

\* with m >= 2 symbols: m - merges nodes are in the heap during the loop,
\* and after it merges = m - 1 and the root holds the total of the counts
MergeCount ==
  (script = "build_huffman_tree" /\ Len(freq_dict) >= 2) =>
    /\ pc = "merge" => Len(heap) + merges = Len(freq_dict)
    /\ pc \in {"tree", "codes", "done", "raised"} =>
         /\ merges = Len(freq_dict) - 1
         /\ heap = <<tree>>
         /\ tree.freq = FreqTotal(freq_dict)

\* C28: for a frequency table with m >= 2 symbols the merge loop of the
\* Huffman build terminates after exactly m-1 merges; each merge removes the
\* two nodes of lowest frequency currently in the heap and inserts a parent
\* whose frequency is their sum, and the single remaining root has frequency
\* equal to the total of all counts.
C28_MergeLoop ==
  /\ []MergeCount
  /\ [][(script = "build_huffman_tree" /\ pc = "merge" /\ heap' # heap)
          => (merges' = merges + 1 /\ RemovesTwoLowest(heap, heap'))]_vars
  /\ (script = "build_huffman_tree" /\ pc = "merge") ~> (pc = "tree")

\* the loop has ended on a table of MaxSyms symbols of different counts
C28_Witness ==
  /\ script = "build_huffman_tree" /\ pc = "tree"
  /\ Len(freq_dict) = MaxSyms /\ merges = MaxSyms - 1
  /\ \E i, j \in 1..Len(freq_dict) : freq_dict[i].freq # freq_dict[j].freq
  /\ tree.kind = "internal" /\ tree.freq = FreqTotal(freq_dict)

(***************************************************************************)
(* C29: the best method after the selection.                               *)
(***************************************************************************)
\* C29: for every pair of analysed streams (reference, candidate), the
\* best-method selection in main ends with best_method set to one of the
\* six strategy names, so that the result lookups for the best method that
\* follow never fail, also when no strategy has a strictly positive
\* advantage.
C29_BestMethodSet ==
  (script = "main" /\ pc \in {"analysis", "target", "overhead", "done"}) =>
    \E i \in 1..Len(Methods) : loc.best_method = Methods[i]

(***************************************************************************)
(* C30: the codeword lengths against the counts.                           *)
(***************************************************************************)
\* the length of the codeword of the i-th symbol of the frequency table
CodeLenAt(i) == Len(codes[freq_dict[i].sym])

\* C30: in every Huffman code table built from a frequency table with at
\* least two symbols, a symbol with a strictly higher count never gets a
\* strictly longer codeword than a symbol with a lower count, and every
\* codeword length lies between 1 and m-1, m the number of distinct symbols.
C30_MonotoneLengths ==
  (pc = "codes" /\ Len(freq_dict) >= 2) =>
    /\ \A i, j \in 1..Len(freq_dict) :
         freq_dict[i].freq > freq_dict[j].freq => CodeLenAt(i) <= CodeLenAt(j)
    /\ \A i \in 1..Len(freq_dict) :
         1 <= CodeLenAt(i) /\ CodeLenAt(i) <= Len(freq_dict) - 1

\* a table of MaxSyms symbols built into codewords of different lengths, the
\* most frequent symbol with the shortest and one of length m-1
C30_Witness ==
  /\ pc = "codes" /\ Len(freq_dict) = MaxSyms
  /\ \E i, j \in 1..Len(freq_dict) :
       /\ freq_dict[i].freq > freq_dict[j].freq
       /\ CodeLenAt(i) = 1 /\ CodeLenAt(j) = MaxSyms - 1
====
